---- MODULE Spec2Model ----
(***************************************************************************)
(* The ledger repository layer of rekapundi: the expense, income and       *)
(* wallet repositories issuing statements against a PostgreSQL store, and  *)
(* the summary query.  Tables are sets of rows; every repository call runs *)
(* as a task that executes its statements one at a time, inside a          *)
(* transaction where the code opens one.                                   *)
(***************************************************************************)
EXTENDS Integers, Sequences, FiniteSets, TLC

(***************************************************************************)
(* Bounds of the model.                                                    *)
(***************************************************************************)
NumTasks == 2        \* repository calls that may be in flight together
MaxCalls == 1        \* calls each task issues one after the other
MaxBatch == 2        \* longest batch handed to insert_bulk
MaxExpenseId == 5    \* last value the expense id sequence hands out
MaxTransferId == 2   \* last value the wallet_transfer id sequence hands out
MaxDate == 3         \* dates are the days 1..MaxDate
NumLookupRows == 3   \* rows of each lookup table
MaxRawLen == 3       \* longest raw query-string value
MaxIncomeId == 4     \* last value the income id sequence hands out

(***************************************************************************)
(* Program constants.                                                      *)
(***************************************************************************)
FEE_CATEGORY_ID == 1
FEE_PRIORITY == 2
MAX_PAGINATION_LIMIT == 100

\* i32::MAX, with the 32 bits of an i32 scaled to 11 so that sums of amounts
\* stay within the arithmetic of the checker.
I32_MAX == 2^10 - 1

Tasks == 1..NumTasks

(***************************************************************************)
(* Option<String>: None is the empty sequence, Some(s) is <<s>>.           *)
(***************************************************************************)
None == <<>>
Some(s) == <<s>>

(***************************************************************************)
(* Lookup tables.  No repository operation writes them.                    *)
(***************************************************************************)
category == 1..NumLookupRows
wallet == 1..NumLookupRows
tag == 1..NumLookupRows
MissingId == NumLookupRows + 1   \* a positive id that names no lookup row

\* Columns of the lookup rows.  Categories 1 and 2 belong to parent category
\* 1, categories 3 and 4 to parent category 2, and so on.
Names == <<"Cash", "bank", "Card", "atm", "Gold">>
wallet_name(id) == Names[id]
category_name(id) == Names[id]
category_parent_category_id(id) == (id + 1) \div 2
parent_category == { category_parent_category_id(c) : c \in category }
parent_category_name(id) == Names[id]

\* Tags: every second tag is important.
TagNames == <<"food", "work", "bills", "alms", "zoo">>
tag_name(id) == TagNames[id]
tag_is_important(id) == id % 2 = 0

\* The code points of the names above.
CodePoints ==
    [n \in {"Cash", "bank", "Card", "atm", "Gold", "food", "work", "bills", "alms", "zoo"} |->
        CASE n = "Cash" -> <<67, 97, 115, 104>>
          [] n = "bank" -> <<98, 97, 110, 107>>
          [] n = "Card" -> <<67, 97, 114, 100>>
          [] n = "atm" -> <<97, 116, 109>>
          [] n = "Gold" -> <<71, 111, 108, 100>>
          [] n = "food" -> <<102, 111, 111, 100>>
          [] n = "work" -> <<119, 111, 114, 107>>
          [] n = "bills" -> <<98, 105, 108, 108, 115>>
          [] n = "alms" -> <<97, 108, 109, 115>>
          [] n = "zoo" -> <<122, 111, 111>>]

\* LOWER(text)
Lower(text) == [k \in DOMAIN text |-> IF text[k] \in 65..90 THEN text[k] + 32 ELSE text[k]]

\* a sorts before b, or equals it, code point by code point.
RECURSIVE TextLeq(_, _)
TextLeq(a, b) ==
    IF a = <<>> THEN TRUE
    ELSE IF b = <<>> THEN FALSE
    ELSE IF Head(a) # Head(b) THEN Head(a) < Head(b)
    ELSE TextLeq(Tail(a), Tail(b))

\* Collations the store may order text by: by code point, or by letter with
\* the case of a letter counting only between texts that are otherwise equal.
Collations == {"C", "en_US"}

CollationLeq(collation, a, b) ==
    IF collation = "C" THEN TextLeq(a, b)
    ELSE IF Lower(a) = Lower(b) THEN TextLeq(b, a)
    ELSE TextLeq(Lower(a), Lower(b))

(***************************************************************************)
(* Request payloads (dtos::expense::SaveExpense).                          *)
(***************************************************************************)
SaveExpense(amount, date, description, priority, category_id, wallet_id, tag_ids) ==
    [amount |-> amount, date |-> date, description |-> description,
     priority |-> priority, category_id |-> category_id,
     wallet_id |-> wallet_id, tag_ids |-> tag_ids]

SaveExpenses ==
    { SaveExpense(10, 1, None, 0, 1, 1, <<1, 2>>),
      SaveExpense(20, 2, Some("lunch"), 1, 2, 2, <<>>),
      SaveExpense(30, 2, Some("taxi"), 2, 2, 1, <<2>>),
      SaveExpense(40, 1, None, 0, 1, 2, <<MissingId>>),
      SaveExpense(50, 1, None, 1, MissingId, 1, <<1>>),
      SaveExpense(60, 2, None, 2, 1, 1, <<1, 1>>) }

Batches == UNION { [1..n -> SaveExpenses] : n \in 0..MaxBatch }

(***************************************************************************)
(* Rows.                                                                   *)
(***************************************************************************)
ExpenseRow(id, e) ==
    [id |-> id, amount |-> e.amount, date |-> e.date,
     description |-> e.description, priority |-> e.priority,
     category_id |-> e.category_id, wallet_id |-> e.wallet_id]

NoTx == [open |-> FALSE, expense_ins |-> {}, expense_upd |-> {},
         tag_ins |-> {}, tag_del |-> {}, transfer_ins |-> {}, income_ins |-> {}]

NoEffect == [expense_add |-> {}, expense_del |-> {},
             tag_add |-> {}, tag_del |-> {},
             transfer_add |-> {}, income_add |-> {}, income_del |-> {}]

NoCall == [op |-> "none"]

NoSummary ==
    [expense |-> [amount |-> 0,
                  group_summary |-> [parent_categories |-> <<>>, priorities |-> <<>>]],
     income |-> [amount |-> 0, group_summary |-> [wallets |-> <<>>]]]

InitialIncome ==
    { [id |-> 1, amount |-> 100, date |-> 1, description |-> None, wallet_id |-> 1] }

VARIABLES
    expense,                \* committed rows of table expense
    expense_tag,            \* committed rows of table expense_tag: <<expense_id, tag_id>>
    income,                 \* committed rows of table income
    wallet_transfer,        \* committed rows of table wallet_transfer
    expense_id_seq,         \* next value of the expense id sequence
    wallet_transfer_id_seq, \* next value of the wallet_transfer id sequence
    income_id_seq,          \* next value of the income id sequence
    pc,                     \* per task: the statement the call is about to issue
    call,                   \* per task: the call and its arguments
    tx,                     \* per task: the uncommitted writes of its open transaction
    expense_inserted_ids,   \* per task: ids returned so far by INSERT ... RETURNING id
    ret,                    \* per task: the Result the call returned
    returned_at,            \* per task: the statement at which the call returned
    summary,                \* per task: the ShowSummary a generate_raw call returned
    found,                  \* per task: the value a reading call returned
    calls,                  \* per task: calls issued so far
    effect                  \* per task: what the current call changed in the committed tables

vars == <<expense, expense_tag, income, wallet_transfer, expense_id_seq,
          wallet_transfer_id_seq, income_id_seq, pc, call, tx, expense_inserted_ids, ret,
          returned_at, summary, found, calls, effect>>

tables == <<expense, expense_tag, income, wallet_transfer>>

TasksInit ==
    /\ expense_id_seq = 3
    /\ wallet_transfer_id_seq = 1
    /\ income_id_seq = 2
    /\ pc = [t \in Tasks |-> "idle"]
    /\ call = [t \in Tasks |-> NoCall]
    /\ tx = [t \in Tasks |-> NoTx]
    /\ expense_inserted_ids = [t \in Tasks |-> <<>>]
    /\ ret = [t \in Tasks |-> "none"]
    /\ returned_at = [t \in Tasks |-> "none"]
    /\ summary = [t \in Tasks |-> NoSummary]
    /\ found = [t \in Tasks |-> <<>>]
    /\ calls = [t \in Tasks |-> 0]
    /\ effect = [t \in Tasks |-> NoEffect]

Init ==
    /\ expense = { ExpenseRow(1, SaveExpense(10, 1, None, 0, 1, 1, <<>>)),
                   ExpenseRow(2, SaveExpense(20, 2, Some("lunch"), 1, 2, 2, <<>>)) }
    /\ expense_tag = { <<1, 1>>, <<1, 2>>, <<2, 1>> }
    /\ income = InitialIncome
    /\ wallet_transfer = {}
    /\ TasksInit

(***************************************************************************)
(* Bookkeeping shared by the operations.                                   *)
(***************************************************************************)

\* A task takes a new call when it has none in flight.
CanCall(t) == pc[t] \in {"idle", "done"} /\ calls[t] < MaxCalls

StartCall(t, c) ==
    /\ call' = [call EXCEPT ![t] = c]
    /\ calls' = [calls EXCEPT ![t] = @ + 1]

\* What a step of task t changed in the committed tables, added to the
\* changes the call made before.
Record(t, base) ==
    effect' = [effect EXCEPT ![t] =
        [expense_add  |-> base.expense_add \cup (expense' \ expense),
         expense_del  |-> base.expense_del \cup (expense \ expense'),
         tag_add      |-> base.tag_add \cup (expense_tag' \ expense_tag),
         tag_del      |-> base.tag_del \cup (expense_tag \ expense_tag'),
         transfer_add |-> base.transfer_add \cup (wallet_transfer' \ wallet_transfer),
         income_add   |-> base.income_add \cup (income' \ income),
         income_del   |-> base.income_del \cup (income \ income')]]

\* A call that takes note of a failed round trip and goes on with the same
\* statement.
Return_GoOn(t, r) ==
    IF r = "Io" /\ pc[t] \notin {"idle", "done"}
    THEN /\ ret' = [ret EXCEPT ![t] = r]
         /\ returned_at' = [returned_at EXCEPT ![t] = pc[t]]
         /\ UNCHANGED <<pc, tx>>
    ELSE /\ ret' = [ret EXCEPT ![t] = r]
         /\ returned_at' = [returned_at EXCEPT ![t] = pc[t]]
         /\ pc' = [pc EXCEPT ![t] = "done"]
         /\ tx' = [tx EXCEPT ![t] = NoTx]

\* The call returns r.  A transaction still open is dropped, which rolls it
\* back: none of its writes reaches the committed tables.
Return(t, r) ==
    /\ ret' = [ret EXCEPT ![t] = r]
    /\ returned_at' = [returned_at EXCEPT ![t] = pc[t]]
    /\ pc' = [pc EXCEPT ![t] = "done"]
    /\ tx' = [tx EXCEPT ![t] = NoTx]

\* Outcomes of one round trip to the store: it is carried out, or the
\* connection fails.
Outcomes == {"ok", "io"}

\* Row id is locked by the open transaction of a task other than t.
LockedByOther(t, id) ==
    \E u \in Tasks \ {t} : tx[u].open /\ \E r \in tx[u].expense_upd : r.id = id

Range(s) == { s[k] : k \in DOMAIN s }

(***************************************************************************)
(* The schema: constraints the store enforces on the tables.               *)
(***************************************************************************)

\* expense.category_id and expense.wallet_id reference category and wallet.
ExpenseForeignKeys(e) == e.category_id \in category /\ e.wallet_id \in wallet

\* The rows of expense_tag a statement of task t sees: the committed rows
\* and the uncommitted writes of its own transaction.
VisibleExpenseTag(t) == (expense_tag \ tx[t].tag_del) \cup tx[t].tag_ins

VisibleExpenseIds(t) ==
    { r.id : r \in expense } \cup { r.id : r \in tx[t].expense_ins }

\* The constraint of expense_tag a list of new rows violates, or "ok": the
\* primary key (expense_id, tag_id), then the references to expense and tag.
ExpenseTagConstraintError(t, values) ==
    IF \/ \E k \in DOMAIN values : values[k] \in VisibleExpenseTag(t)
       \/ \E j, k \in DOMAIN values : j # k /\ values[j] = values[k]
    THEN "UniqueViolation"
    ELSE IF \E k \in DOMAIN values :
                values[k][1] \notin VisibleExpenseIds(t) \/ values[k][2] \notin tag
    THEN "ForeignKeyViolation"
    ELSE "ok"

\* The error of INSERT INTO expense_tag (expense_id, tag_id) VALUES <values>,
\* or "ok".  QueryBuilder::push_values writes "VALUES " and then the tuples,
\* so an empty list leaves a statement the store cannot parse.
InsertExpenseTagError(t, values) ==
    IF values = <<>> THEN "SyntaxError" ELSE ExpenseTagConstraintError(t, values)

\* expense_tag.expense_id references expense ON DELETE CASCADE: the rows of
\* expense_tag left when expense row id is deleted.
ExpenseTagAfterDelete(id) == { p \in expense_tag : p[1] # id }

\* COMMIT: the writes of the transaction reach the committed tables at once.
Commit(t) ==
    /\ expense' = { r \in expense : \A u \in tx[t].expense_upd : u.id # r.id }
                      \cup tx[t].expense_upd \cup tx[t].expense_ins
    /\ expense_tag' = (expense_tag \ tx[t].tag_del) \cup tx[t].tag_ins
    /\ wallet_transfer' = wallet_transfer \cup tx[t].transfer_ins

(***************************************************************************)
(* expense::Repository::insert_bulk                                        *)
(***************************************************************************)

\* The pairing done against the returned ids read in the opposite order.
RECURSIVE ExpenseTagValues_Reversed(_, _, _)
ExpenseTagValues_Reversed(expenses, ids, i) ==
    IF i > Len(expenses) THEN <<>>
    ELSE [k \in 1..Len(expenses[i].tag_ids) |->
              <<ids[Len(ids) + 1 - i], expenses[i].tag_ids[k]>>]
             \o ExpenseTagValues_Reversed(expenses, ids, i + 1)

\* The (expense_id, tag_id) tuples of the batch, from expense i on: the i-th
\* returned id is paired with each tag id of the i-th payload.
RECURSIVE ExpenseTagValues(_, _, _)
ExpenseTagValues(expenses, ids, i) ==
    IF i > Len(expenses) THEN <<>>
    ELSE [k \in 1..Len(expenses[i].tag_ids) |-> <<ids[i], expenses[i].tag_ids[k]>>]
             \o ExpenseTagValues(expenses, ids, i + 1)

\* let mut tx = self.pool.begin().await?;
InsertBulkBeginOf(t, expenses) ==
    /\ \E o \in Outcomes :
        /\ StartCall(t, [op |-> "expense.insert_bulk", expenses |-> expenses])
        /\ expense_inserted_ids' = [expense_inserted_ids EXCEPT ![t] = <<>>]
        /\ IF o = "ok"
             THEN /\ tx' = [tx EXCEPT ![t] = [NoTx EXCEPT !.open = TRUE]]
                  /\ pc' = [pc EXCEPT ![t] = "insert_bulk.expense"]
                  /\ ret' = [ret EXCEPT ![t] = "pending"]
                  /\ UNCHANGED returned_at
             ELSE Return(t, "Io")
    /\ UNCHANGED <<tables, expense_id_seq, wallet_transfer_id_seq, income_id_seq>>
    /\ Record(t, NoEffect)
    /\ UNCHANGED <<summary, found>>

\* insert_bulk called with any batch.
InsertBulkBegin(t) ==
    /\ CanCall(t)
    /\ \E expenses \in Batches : InsertBulkBeginOf(t, expenses)

\* The statement run on the pool instead of the transaction: the row is
\* committed at once.
InsertBulkExpenseRow_OnPool(t, row) ==
    /\ expense' = expense \cup {row}
    /\ UNCHANGED tx

\* .fetch_all(&mut *tx): the statement runs on the transaction, so the row it
\* inserts stays uncommitted.
InsertBulkExpenseRow(t, row) ==
    /\ tx' = [tx EXCEPT ![t].expense_ins = @ \cup {row}]
    /\ UNCHANGED expense

\* The INSERT INTO expense ... RETURNING id statement, one VALUES row at a
\* time: each row draws its id from the sequence when it is inserted, so rows
\* of statements running in other sessions may draw ids in between.  The
\* returned ids come back in the order of the VALUES rows.
InsertBulkExpense(t) ==
    /\ pc[t] = "insert_bulk.expense"
    /\ LET expenses == call[t].expenses
           i == Len(expense_inserted_ids[t]) + 1
       IN \E o \in Outcomes :
          IF o = "io" THEN
              /\ Return(t, "Io")
              /\ UNCHANGED <<expense, expense_id_seq, expense_inserted_ids>>
          ELSE IF Len(expenses) = 0 THEN
              /\ Return(t, "SyntaxError")
              /\ UNCHANGED <<expense, expense_id_seq, expense_inserted_ids>>
          ELSE
              /\ expense_id_seq <= MaxExpenseId
              /\ expense_id_seq' = expense_id_seq + 1
              /\ IF ~ExpenseForeignKeys(expenses[i]) THEN
                     /\ Return(t, "ForeignKeyViolation")
                     /\ UNCHANGED <<expense, expense_inserted_ids>>
                 ELSE
                     /\ InsertBulkExpenseRow(t, ExpenseRow(expense_id_seq, expenses[i]))
                     /\ expense_inserted_ids' =
                            [expense_inserted_ids EXCEPT ![t] = Append(@, expense_id_seq)]
                     /\ pc' = [pc EXCEPT ![t] =
                            IF i < Len(expenses) THEN "insert_bulk.expense"
                            ELSE IF ExpenseTagValues(expenses, expense_inserted_ids'[t], 1) = <<>>
                                 THEN "insert_bulk.commit"
                                 ELSE "insert_bulk.expense_tag"]
                     /\ UNCHANGED <<ret, returned_at>>
    /\ UNCHANGED <<expense_tag, income, wallet_transfer, wallet_transfer_id_seq, income_id_seq,
                   call, calls>>
    /\ Record(t, effect[t])
    /\ UNCHANGED <<summary, found>>

\* expense_tag_query.build().execute(&mut *tx).await?;
InsertBulkExpenseTag(t) ==
    /\ pc[t] = "insert_bulk.expense_tag"
    /\ LET values == ExpenseTagValues(call[t].expenses, expense_inserted_ids[t], 1)
           err == InsertExpenseTagError(t, values)
       IN \E o \in Outcomes :
          IF o = "io" THEN Return(t, "Io")
          ELSE IF err # "ok" THEN Return(t, err)
          ELSE /\ tx' = [tx EXCEPT ![t].tag_ins = @ \cup Range(values)]
               /\ pc' = [pc EXCEPT ![t] = "insert_bulk.commit"]
               /\ UNCHANGED <<ret, returned_at>>
    /\ UNCHANGED <<tables, expense_id_seq, wallet_transfer_id_seq, income_id_seq, call, calls,
                   expense_inserted_ids>>
    /\ Record(t, effect[t])
    /\ UNCHANGED <<summary, found>>

\* tx.commit().await?;
InsertBulkCommit(t) ==
    /\ pc[t] = "insert_bulk.commit"
    /\ \E o \in Outcomes :
          IF o = "io" THEN Return(t, "Io") /\ UNCHANGED tables
          ELSE Commit(t) /\ Return(t, "Ok")
    /\ UNCHANGED <<expense_id_seq, wallet_transfer_id_seq, income_id_seq, call, calls,
                   expense_inserted_ids, income>>
    /\ Record(t, effect[t])
    /\ UNCHANGED <<summary, found>>

(***************************************************************************)
(* expense::Repository::update                                             *)
(***************************************************************************)

\* Ids a caller may name: one that exists from the start, one a concurrent
\* insert may create, one that never exists.
TargetIds == {1, 3, MaxExpenseId + 1}

\* let mut tx = self.pool.begin().await?;
UpdateBeginOf(t, id, e) ==
    /\ \E o \in Outcomes :
        /\ StartCall(t, [op |-> "expense.update", id |-> id, expense |-> e])
        /\ IF o = "ok"
             THEN /\ tx' = [tx EXCEPT ![t] = [NoTx EXCEPT !.open = TRUE]]
                  /\ pc' = [pc EXCEPT ![t] = "update.expense"]
                  /\ ret' = [ret EXCEPT ![t] = "pending"]
                  /\ UNCHANGED returned_at
             ELSE Return(t, "Io")
    /\ UNCHANGED <<tables, expense_id_seq, wallet_transfer_id_seq, income_id_seq, expense_inserted_ids>>
    /\ Record(t, NoEffect)
    /\ UNCHANGED <<summary, found>>

\* update called with any id and payload.
UpdateBegin(t) ==
    /\ CanCall(t)
    /\ \E id \in TargetIds, e \in SaveExpenses : UpdateBeginOf(t, id, e)

\* The UPDATE without the rows_affected test after it.
UpdateExpense_NoRowsAffectedTest(t) ==
    /\ pc[t] = "update.expense"
    /\ ~LockedByOther(t, call[t].id)
    /\ \E o \in Outcomes :
          IF o = "io" THEN Return(t, "Io")
          ELSE IF /\ call[t].id \in { r.id : r \in expense }
                  /\ ~ExpenseForeignKeys(call[t].expense) THEN
              Return(t, "ForeignKeyViolation")
          ELSE
              /\ tx' = [tx EXCEPT ![t].expense_upd =
                            { ExpenseRow(r.id, call[t].expense) :
                                  r \in { x \in expense : x.id = call[t].id } }]
              /\ pc' = [pc EXCEPT ![t] = "update.delete_expense_tag"]
              /\ UNCHANGED <<ret, returned_at>>
    /\ UNCHANGED <<tables, expense_id_seq, wallet_transfer_id_seq, income_id_seq, call, calls,
                   expense_inserted_ids>>
    /\ Record(t, effect[t])
    /\ UNCHANGED <<summary, found>>

\* The UPDATE run on the pool instead of the transaction: the row is
\* committed at once and no lock is held after the statement.
UpdateExpenseRow_OnPool(t, row) ==
    /\ expense' = { r \in expense : r.id # row.id } \cup {row}
    /\ UNCHANGED tx

\* .execute(&mut *tx): the new row stays uncommitted, and the row is locked
\* until the transaction ends.
UpdateExpenseRow(t, row) ==
    /\ tx' = [tx EXCEPT ![t].expense_upd = {row}]
    /\ UNCHANGED expense

\* UPDATE expense SET ... WHERE id = $7, then the rows_affected test.  The
\* statement waits while another transaction holds the row.
UpdateExpense(t) ==
    /\ pc[t] = "update.expense"
    /\ ~LockedByOther(t, call[t].id)
    /\ \E o \in Outcomes :
          IF o = "io" THEN Return(t, "Io") /\ UNCHANGED expense
          ELSE IF call[t].id \notin { r.id : r \in expense } THEN
              /\ pc' = [pc EXCEPT ![t] = "update.rollback"]
              /\ UNCHANGED <<expense, tx, ret, returned_at>>
          ELSE IF ~ExpenseForeignKeys(call[t].expense) THEN
              Return(t, "ForeignKeyViolation") /\ UNCHANGED expense
          ELSE
              /\ UpdateExpenseRow(t, ExpenseRow(call[t].id, call[t].expense))
              /\ pc' = [pc EXCEPT ![t] = "update.delete_expense_tag"]
              /\ UNCHANGED <<ret, returned_at>>
    /\ UNCHANGED <<expense_tag, income, wallet_transfer, expense_id_seq,
                   wallet_transfer_id_seq, income_id_seq, call, calls,
                   expense_inserted_ids>>
    /\ Record(t, effect[t])
    /\ UNCHANGED <<summary, found>>

\* tx.rollback().await?; return Err(sqlx::Error::RowNotFound);
UpdateRollback(t) ==
    /\ pc[t] = "update.rollback"
    /\ \E o \in Outcomes :
          IF o = "io" THEN Return(t, "Io") ELSE Return(t, "RowNotFound")
    /\ UNCHANGED <<tables, expense_id_seq, wallet_transfer_id_seq, income_id_seq, call, calls,
                   expense_inserted_ids>>
    /\ Record(t, effect[t])
    /\ UNCHANGED <<summary, found>>

\* The DELETE without its WHERE clause.
UpdateDeletedTags_All(t) == VisibleExpenseTag(t)

\* The rows DELETE FROM expense_tag WHERE expense_id = $1 removes.
UpdateDeletedTags(t) == { p \in VisibleExpenseTag(t) : p[1] = call[t].id }

\* DELETE FROM expense_tag WHERE expense_id = $1
UpdateDeleteExpenseTag(t) ==
    /\ pc[t] = "update.delete_expense_tag"
    /\ \E o \in Outcomes :
          IF o = "io" THEN Return(t, "Io")
          ELSE /\ tx' = [tx EXCEPT ![t].tag_del = UpdateDeletedTags(t)]
               /\ pc' = [pc EXCEPT ![t] = "update.expense_tag"]
               /\ UNCHANGED <<ret, returned_at>>
    /\ UNCHANGED <<tables, expense_id_seq, wallet_transfer_id_seq, income_id_seq, call, calls,
                   expense_inserted_ids>>
    /\ Record(t, effect[t])
    /\ UNCHANGED <<summary, found>>

\* The tuples pushed for the new association set: (id, tag_id) per tag id.
UpdateTagValues(id, tag_ids) == [k \in 1..Len(tag_ids) |-> <<id, tag_ids[k]>>]

\* expense_tag_query.build().execute(&mut *tx).await?;  The statement is
\* built and executed whatever the length of tag_ids.
UpdateExpenseTag(t) ==
    /\ pc[t] = "update.expense_tag"
    /\ LET values == UpdateTagValues(call[t].id, call[t].expense.tag_ids)
           err == InsertExpenseTagError(t, values)
       IN \E o \in Outcomes :
          IF o = "io" THEN Return(t, "Io")
          ELSE IF err # "ok" THEN Return(t, err)
          ELSE /\ tx' = [tx EXCEPT ![t].tag_ins = @ \cup Range(values)]
               /\ pc' = [pc EXCEPT ![t] = "update.commit"]
               /\ UNCHANGED <<ret, returned_at>>
    /\ UNCHANGED <<tables, expense_id_seq, wallet_transfer_id_seq, income_id_seq, call, calls,
                   expense_inserted_ids>>
    /\ Record(t, effect[t])
    /\ UNCHANGED <<summary, found>>

\* tx.commit().await?;
UpdateCommit(t) ==
    /\ pc[t] = "update.commit"
    /\ \E o \in Outcomes :
          IF o = "io" THEN Return(t, "Io") /\ UNCHANGED tables
          ELSE Commit(t) /\ Return(t, "Ok")
    /\ UNCHANGED <<expense_id_seq, wallet_transfer_id_seq, income_id_seq, call, calls,
                   expense_inserted_ids, income>>
    /\ Record(t, effect[t])
    /\ UNCHANGED <<summary, found>>

(***************************************************************************)
(* expense::Repository::delete                                             *)
(***************************************************************************)

\* The DELETE without the rows_affected test after it.
Delete_NoRowsAffectedTest(t) ==
    /\ CanCall(t)
    /\ \E id \in TargetIds, o \in Outcomes :
        /\ ~LockedByOther(t, id)
        /\ StartCall(t, [op |-> "expense.delete", id |-> id])
        /\ IF o = "io" THEN
               Return(t, "Io") /\ UNCHANGED <<expense, expense_tag>>
           ELSE
               /\ expense' = { r \in expense : r.id # id }
               /\ expense_tag' = ExpenseTagAfterDelete(id)
               /\ Return(t, "Ok")
    /\ UNCHANGED <<income, wallet_transfer, expense_id_seq, wallet_transfer_id_seq, income_id_seq,
                   expense_inserted_ids>>
    /\ Record(t, NoEffect)
    /\ UNCHANGED <<summary, found>>

\* delete against an expense_tag whose rows are kept when their expense row
\* goes.
Delete_NoCascade(t) ==
    /\ CanCall(t)
    /\ \E id \in TargetIds, o \in Outcomes :
        /\ ~LockedByOther(t, id)
        /\ StartCall(t, [op |-> "expense.delete", id |-> id])
        /\ IF o = "io" THEN
               Return(t, "Io") /\ UNCHANGED <<expense, expense_tag>>
           ELSE IF id \in { r.id : r \in expense } THEN
               /\ expense' = { r \in expense : r.id # id }
               /\ UNCHANGED expense_tag
               /\ Return(t, "Ok")
           ELSE
               Return(t, "RowNotFound") /\ UNCHANGED <<expense, expense_tag>>
    /\ UNCHANGED <<income, wallet_transfer, expense_id_seq, wallet_transfer_id_seq, income_id_seq,
                   expense_inserted_ids>>
    /\ Record(t, NoEffect)
    /\ UNCHANGED <<summary, found>>

\* DELETE FROM expense WHERE id = $1 on the pool, then the rows_affected
\* test.  The statement waits while another transaction holds the row.
Delete(t) ==
    /\ CanCall(t)
    /\ \E id \in TargetIds, o \in Outcomes :
        /\ ~LockedByOther(t, id)
        /\ StartCall(t, [op |-> "expense.delete", id |-> id])
        /\ IF o = "io" THEN
               Return(t, "Io") /\ UNCHANGED <<expense, expense_tag>>
           ELSE IF id \in { r.id : r \in expense } THEN
               /\ expense' = { r \in expense : r.id # id }
               /\ expense_tag' = ExpenseTagAfterDelete(id)
               /\ Return(t, "Ok")
           ELSE
               Return(t, "RowNotFound") /\ UNCHANGED <<expense, expense_tag>>
    /\ UNCHANGED <<income, wallet_transfer, expense_id_seq, wallet_transfer_id_seq, income_id_seq,
                   expense_inserted_ids>>
    /\ Record(t, NoEffect)
    /\ UNCHANGED <<summary, found>>

(***************************************************************************)
(* income::Repository::update and delete                                   *)
(***************************************************************************)

SaveIncome(amount, date, description, wallet_id) ==
    [amount |-> amount, date |-> date, description |-> description,
     wallet_id |-> wallet_id]

SaveIncomes ==
    { SaveIncome(200, 2, Some("salary"), 2),
      SaveIncome(300, 1, None, MissingId) }

IncomeRow(id, i) ==
    [id |-> id, amount |-> i.amount, date |-> i.date,
     description |-> i.description, wallet_id |-> i.wallet_id]

IncomeIds == {1, 2}

\* UPDATE income SET ... WHERE id = $5 on the pool, then the rows_affected test.
IncomeUpdateOf(t, id, i) ==
    /\ \E o \in Outcomes :
        /\ StartCall(t, [op |-> "income.update", id |-> id, income |-> i])
        /\ IF o = "io" THEN
               Return(t, "Io") /\ UNCHANGED income
           ELSE IF id \notin { r.id : r \in income } THEN
               Return(t, "RowNotFound") /\ UNCHANGED income
           ELSE IF i.wallet_id \notin wallet THEN
               Return(t, "ForeignKeyViolation") /\ UNCHANGED income
           ELSE
               /\ income' = { r \in income : r.id # id } \cup {IncomeRow(id, i)}
               /\ Return(t, "Ok")
    /\ UNCHANGED <<expense, expense_tag, wallet_transfer, expense_id_seq,
                   wallet_transfer_id_seq, income_id_seq, expense_inserted_ids>>
    /\ Record(t, NoEffect)
    /\ UNCHANGED <<summary, found>>

\* update called with any id and payload.
IncomeUpdate(t) ==
    /\ CanCall(t)
    /\ \E id \in IncomeIds, i \in SaveIncomes : IncomeUpdateOf(t, id, i)

\* DELETE FROM income WHERE id = $1 on the pool, then the rows_affected test.
IncomeDelete(t) ==
    /\ CanCall(t)
    /\ \E id \in IncomeIds, o \in Outcomes :
        /\ StartCall(t, [op |-> "income.delete", id |-> id])
        /\ IF o = "io" THEN
               Return(t, "Io") /\ UNCHANGED income
           ELSE IF id \in { r.id : r \in income } THEN
               /\ income' = { r \in income : r.id # id }
               /\ Return(t, "Ok")
           ELSE
               Return(t, "RowNotFound") /\ UNCHANGED income
    /\ UNCHANGED <<expense, expense_tag, wallet_transfer, expense_id_seq,
                   wallet_transfer_id_seq, income_id_seq, expense_inserted_ids>>
    /\ Record(t, NoEffect)
    /\ UNCHANGED <<summary, found>>

(***************************************************************************)
(* income::Repository::insert_bulk                                         *)
(***************************************************************************)

IncomeBatches == UNION { [1..n -> SaveIncomes] : n \in 0..MaxBatch }

\* The query is built, then: let mut tx = self.pool.begin().await?;
IncomeInsertBulkBeginOf(t, incomes) ==
    /\ \E o \in Outcomes :
        /\ StartCall(t, [op |-> "income.insert_bulk", incomes |-> incomes])
        /\ IF o = "ok"
             THEN /\ tx' = [tx EXCEPT ![t] = [NoTx EXCEPT !.open = TRUE]]
                  /\ pc' = [pc EXCEPT ![t] = "income.insert_bulk.income"]
                  /\ ret' = [ret EXCEPT ![t] = "pending"]
                  /\ UNCHANGED returned_at
             ELSE Return(t, "Io")
    /\ UNCHANGED <<tables, expense_id_seq, wallet_transfer_id_seq, income_id_seq,
                   expense_inserted_ids>>
    /\ Record(t, NoEffect)
    /\ UNCHANGED <<summary, found>>

\* insert_bulk called with any batch.
IncomeInsertBulkBegin(t) ==
    /\ CanCall(t)
    /\ \E incomes \in IncomeBatches : IncomeInsertBulkBeginOf(t, incomes)

\* The statement run on the pool instead of the transaction: the row is
\* committed at once.
IncomeInsertBulkRow_OnPool(t, row) ==
    /\ income' = income \cup {row}
    /\ UNCHANGED tx

\* .execute(&mut *tx): the row stays uncommitted until the commit.
IncomeInsertBulkRow(t, row) ==
    /\ tx' = [tx EXCEPT ![t].income_ins = @ \cup {row}]
    /\ UNCHANGED income

\* income_query.build().execute(&mut *tx).await?; one VALUES row at a time,
\* each drawing its id from the sequence; a batch without rows gives a
\* statement that ends after the column list.
IncomeInsertBulkIncome(t) ==
    /\ pc[t] = "income.insert_bulk.income"
    /\ LET incomes == call[t].incomes
           i == Cardinality(tx[t].income_ins) + 1
       IN \E o \in Outcomes :
          IF o = "io" THEN
              Return(t, "Io") /\ UNCHANGED <<income, income_id_seq>>
          ELSE IF Len(incomes) = 0 THEN
              Return(t, "SyntaxError") /\ UNCHANGED <<income, income_id_seq>>
          ELSE
              /\ income_id_seq <= MaxIncomeId
              /\ income_id_seq' = income_id_seq + 1
              /\ IF incomes[i].wallet_id \notin wallet THEN
                     Return(t, "ForeignKeyViolation") /\ UNCHANGED income
                 ELSE
                     /\ IncomeInsertBulkRow(t, IncomeRow(income_id_seq, incomes[i]))
                     /\ pc' = [pc EXCEPT ![t] =
                            IF i < Len(incomes) THEN "income.insert_bulk.income"
                            ELSE "income.insert_bulk.commit"]
                     /\ UNCHANGED <<ret, returned_at>>
    /\ UNCHANGED <<expense, expense_tag, wallet_transfer, expense_id_seq,
                   wallet_transfer_id_seq, call, calls, expense_inserted_ids>>
    /\ Record(t, effect[t])
    /\ UNCHANGED <<summary, found>>

\* tx.commit().await?;
IncomeInsertBulkCommit(t) ==
    /\ pc[t] = "income.insert_bulk.commit"
    /\ \E o \in Outcomes :
          IF o = "io" THEN Return(t, "Io") /\ UNCHANGED income
          ELSE /\ income' = income \cup tx[t].income_ins
               /\ Return(t, "Ok")
    /\ UNCHANGED <<expense, expense_tag, wallet_transfer, expense_id_seq,
                   wallet_transfer_id_seq, income_id_seq, call, calls,
                   expense_inserted_ids>>
    /\ Record(t, effect[t])
    /\ UNCHANGED <<summary, found>>

(***************************************************************************)
(* handlers::wallet::transfer and                                          *)
(* wallet::Repository::insert_wallet_transfer_with_fee                     *)
(***************************************************************************)

SaveMoneyTransferRequests ==
    [source_wallet_id : {1, MissingId}, target_wallet_id : {2}, amount : {70},
     fee : {0, 5}, date : {2}, description : {None, Some("rent")}]

\* The transfer record with the fee added to its amount.
MoneyTransfer_AmountWithFee(body) ==
    [source_wallet_id |-> body.source_wallet_id,
     target_wallet_id |-> body.target_wallet_id,
     amount |-> body.amount + body.fee, date |-> body.date,
     description |-> body.description]

\* The transfer record the handler builds from the request body.
MoneyTransfer(body) ==
    [source_wallet_id |-> body.source_wallet_id,
     target_wallet_id |-> body.target_wallet_id,
     amount |-> body.amount, date |-> body.date,
     description |-> body.description]

\* The fee record booked against the target wallet.
SaveFee_TargetWallet(body) ==
    IF body.fee = 0 THEN None
    ELSE Some([priority |-> FEE_PRIORITY,
               wallet_id |-> body.target_wallet_id,
               category_id |-> FEE_CATEGORY_ID,
               amount |-> body.fee,
               date |-> body.date,
               description |->
                   IF body.description = None THEN None
                   ELSE Some("Wallet transfer fee: " \o body.description[1])])

\* The fee record built whatever the fee, a fee of 0 included.
SaveFee_Always(body) ==
    Some([priority |-> FEE_PRIORITY,
          wallet_id |-> body.source_wallet_id,
          category_id |-> FEE_CATEGORY_ID,
          amount |-> body.fee,
          date |-> body.date,
          description |->
              IF body.description = None THEN None
              ELSE Some("Wallet transfer fee: " \o body.description[1])])

\* The fee record the handler builds: none for a fee of 0.
SaveFee(body) ==
    IF body.fee = 0 THEN None
    ELSE Some([priority |-> FEE_PRIORITY,
               wallet_id |-> body.source_wallet_id,
               category_id |-> FEE_CATEGORY_ID,
               amount |-> body.fee,
               date |-> body.date,
               description |->
                   IF body.description = None THEN None
                   ELSE Some("Wallet transfer fee: " \o body.description[1])])

WalletTransferRow(id, r) ==
    [id |-> id, source_wallet_id |-> r.source_wallet_id,
     target_wallet_id |-> r.target_wallet_id, amount |-> r.amount,
     date |-> r.date, description |-> r.description]

\* wallet_transfer.source_wallet_id and target_wallet_id reference wallet.
WalletTransferForeignKeys(r) ==
    r.source_wallet_id \in wallet /\ r.target_wallet_id \in wallet

\* fee_record is None: the INSERT INTO wallet_transfer runs on the pool.
TransferSingleOf(t, body) ==
    /\ \E o \in Outcomes :
        /\ SaveFee(body) = None
        /\ StartCall(t, [op |-> "wallet.transfer", body |-> body,
                         wallet_transfer_record |-> MoneyTransfer(body),
                         fee_record |-> SaveFee(body)])
        /\ IF o = "io" THEN
               /\ Return(t, "Io")
               /\ UNCHANGED <<wallet_transfer, wallet_transfer_id_seq>>
           ELSE
               /\ wallet_transfer_id_seq <= MaxTransferId
               /\ wallet_transfer_id_seq' = wallet_transfer_id_seq + 1
               /\ IF ~WalletTransferForeignKeys(MoneyTransfer(body)) THEN
                      Return(t, "ForeignKeyViolation") /\ UNCHANGED wallet_transfer
                  ELSE
                      /\ wallet_transfer' = wallet_transfer \cup
                             {WalletTransferRow(wallet_transfer_id_seq, MoneyTransfer(body))}
                      /\ Return(t, "Ok")
    /\ UNCHANGED <<expense, expense_tag, income, expense_id_seq, income_id_seq,
                   expense_inserted_ids>>
    /\ Record(t, NoEffect)
    /\ UNCHANGED <<summary, found>>

\* transfer called with any body whose fee is 0.
TransferSingle(t) ==
    /\ CanCall(t)
    /\ \E body \in SaveMoneyTransferRequests : TransferSingleOf(t, body)

\* fee_record is Some: let mut tx = self.pool.begin().await?;
TransferBeginOf(t, body) ==
    /\ \E o \in Outcomes :
        /\ SaveFee(body) # None
        /\ StartCall(t, [op |-> "wallet.transfer", body |-> body,
                         wallet_transfer_record |-> MoneyTransfer(body),
                         fee_record |-> SaveFee(body)])
        /\ IF o = "ok"
             THEN /\ tx' = [tx EXCEPT ![t] = [NoTx EXCEPT !.open = TRUE]]
                  /\ pc' = [pc EXCEPT ![t] = "transfer.wallet_transfer"]
                  /\ ret' = [ret EXCEPT ![t] = "pending"]
                  /\ UNCHANGED returned_at
             ELSE Return(t, "Io")
    /\ UNCHANGED <<tables, expense_id_seq, wallet_transfer_id_seq, income_id_seq, expense_inserted_ids>>
    /\ Record(t, NoEffect)
    /\ UNCHANGED <<summary, found>>

\* transfer called with any body whose fee is not 0.
TransferBegin(t) ==
    /\ CanCall(t)
    /\ \E body \in SaveMoneyTransferRequests : TransferBeginOf(t, body)

\* The transfer statement run on the pool instead of the transaction.
TransferInsertTransferRow_OnPool(t, row) ==
    /\ wallet_transfer' = wallet_transfer \cup {row}
    /\ UNCHANGED tx

\* .execute(&mut *tx): the transfer row stays uncommitted until the commit.
TransferInsertTransferRow(t, row) ==
    /\ tx' = [tx EXCEPT ![t].transfer_ins = {row}]
    /\ UNCHANGED wallet_transfer

\* insert_wallet_transfer_with_fee_query.execute(&mut *tx).await?;
TransferInsertTransfer(t) ==
    /\ pc[t] = "transfer.wallet_transfer"
    /\ \E o \in Outcomes :
          IF o = "io" THEN
              /\ Return(t, "Io")
              /\ UNCHANGED <<wallet_transfer, wallet_transfer_id_seq>>
          ELSE
              /\ wallet_transfer_id_seq <= MaxTransferId
              /\ wallet_transfer_id_seq' = wallet_transfer_id_seq + 1
              /\ IF ~WalletTransferForeignKeys(call[t].wallet_transfer_record) THEN
                     Return(t, "ForeignKeyViolation") /\ UNCHANGED wallet_transfer
                 ELSE
                     /\ TransferInsertTransferRow(t,
                            WalletTransferRow(wallet_transfer_id_seq,
                                              call[t].wallet_transfer_record))
                     /\ pc' = [pc EXCEPT ![t] = "transfer.expense"]
                     /\ UNCHANGED <<ret, returned_at>>
    /\ UNCHANGED <<expense, expense_tag, income, expense_id_seq, income_id_seq, call,
                   calls, expense_inserted_ids>>
    /\ Record(t, effect[t])
    /\ UNCHANGED <<summary, found>>

\* INSERT INTO expense (category_id, priority, wallet_id, amount, date,
\* description) with the fields of the fee record.
TransferInsertExpense(t) ==
    /\ pc[t] = "transfer.expense"
    /\ LET fee_record == call[t].fee_record[1]
       IN \E o \in Outcomes :
          IF o = "io" THEN Return(t, "Io") /\ UNCHANGED expense_id_seq
          ELSE
              /\ expense_id_seq <= MaxExpenseId
              /\ expense_id_seq' = expense_id_seq + 1
              /\ IF ~ExpenseForeignKeys(fee_record) THEN
                     Return(t, "ForeignKeyViolation")
                 ELSE
                     /\ tx' = [tx EXCEPT ![t].expense_ins =
                            {ExpenseRow(expense_id_seq, fee_record)}]
                     /\ pc' = [pc EXCEPT ![t] = "transfer.commit"]
                     /\ UNCHANGED <<ret, returned_at>>
    /\ UNCHANGED <<tables, wallet_transfer_id_seq, income_id_seq, call, calls, expense_inserted_ids>>
    /\ Record(t, effect[t])
    /\ UNCHANGED <<summary, found>>

\* tx.commit().await?;
TransferCommit(t) ==
    /\ pc[t] = "transfer.commit"
    /\ \E o \in Outcomes :
          IF o = "io" THEN Return(t, "Io") /\ UNCHANGED tables
          ELSE Commit(t) /\ Return(t, "Ok")
    /\ UNCHANGED <<expense_id_seq, wallet_transfer_id_seq, income_id_seq, call, calls,
                   expense_inserted_ids, income>>
    /\ Record(t, effect[t])
    /\ UNCHANGED <<summary, found>>

(***************************************************************************)
(* common::deserializer on the numbers of a request body, and the handlers *)
(* that take a body.                                                       *)
(***************************************************************************)

\* i32::deserialize
i32_deserialize(value) == value \in -(I32_MAX + 1)..I32_MAX

non_negative_int(value) == i32_deserialize(value) /\ ~(value < 0)

positive_int(value) == i32_deserialize(value) /\ ~(value < 1)

positive_int_vec(values) ==
    \A k \in DOMAIN values : i32_deserialize(values[k]) /\ ~(values[k] < 1)

\* priority_value with the upper bound left out.
priority_value_NoUpperBound(value) == i32_deserialize(value) /\ ~(value < 0)

priority_value(value) == i32_deserialize(value) /\ ~(value < 0 \/ value > 2)

\* Bodies of dtos::expense::SaveExpense: the payloads and the same with one
\* field out of its bound.
RawSaveExpenses ==
    LET e == SaveExpense(10, 1, None, 0, 1, 1, <<1, 2>>)
    IN { e,
         SaveExpense(0, 2, Some("lunch"), 2, 2, 2, <<>>),
         SaveExpense(40, 1, None, 1, MissingId, 1, <<1>>) }
       \cup { [e EXCEPT !.amount = v] : v \in {-1, I32_MAX + 1} }
       \cup { [e EXCEPT !.priority = v] : v \in {-1, 3} }
       \cup { [e EXCEPT !.category_id = 0], [e EXCEPT !.wallet_id = 0],
              [e EXCEPT !.tag_ids = <<1, 0>>] }

\* #[derive(Deserialize)] struct SaveExpense: every field by its function.
DeserializeSaveExpense(raw) ==
    /\ non_negative_int(raw.amount)
    /\ priority_value(raw.priority)
    /\ positive_int(raw.category_id)
    /\ positive_int(raw.wallet_id)
    /\ positive_int_vec(raw.tag_ids)

RawBatches == UNION { [1..n -> RawSaveExpenses] : n \in 0..MaxBatch }

\* struct SaveBatchExpense { expenses: Vec<SaveExpense> }: one element that
\* fails makes the body fail.
DeserializeSaveBatchExpense(raw) == \A k \in DOMAIN raw : DeserializeSaveExpense(raw[k])

RawSaveIncomes ==
    { SaveIncome(v, 2, Some("salary"), 2) : v \in {-1, 0, 1, 200} }
        \cup { SaveIncome(300, 1, None, w) : w \in {0, MissingId} }

\* #[derive(Deserialize)] struct SaveIncome
DeserializeSaveIncome(raw) == positive_int(raw.amount) /\ positive_int(raw.wallet_id)

RawIncomeBatches == UNION { [1..n -> RawSaveIncomes] : n \in 0..MaxBatch }

DeserializeSaveBatchIncome(raw) == \A k \in DOMAIN raw : DeserializeSaveIncome(raw[k])

RawSaveMoneyTransferRequests ==
    [source_wallet_id : {0, 1}, target_wallet_id : {0, 2}, amount : {-1, 0, 70},
     fee : {-1, 0, 5}, date : {2}, description : {Some("rent")}]

\* #[derive(Deserialize)] struct SaveMoneyTransferRequest
DeserializeSaveMoneyTransferRequest(raw) ==
    /\ positive_int(raw.source_wallet_id)
    /\ positive_int(raw.target_wallet_id)
    /\ non_negative_int(raw.amount)
    /\ non_negative_int(raw.fee)

\* WithRejection<Json<...>, AppError> fails, or body.validate() does: the
\* handler returns the error before it calls the repository.
Reject(t, op, raw, r) ==
    /\ StartCall(t, [op |-> op, raw |-> raw])
    /\ Return(t, r)
    /\ UNCHANGED <<tables, expense_id_seq, wallet_transfer_id_seq, income_id_seq,
                   expense_inserted_ids, summary, found>>
    /\ Record(t, NoEffect)

\* body.validate()?: the Validate implementation of the body is not among
\* the sources, so it may pass or fail any body.
ValidateOutcomes == {"ok", "ValidationError"}

\* handlers::expense::save_bulk
ExpenseSaveBulk(t) ==
    /\ CanCall(t)
    /\ \E raw \in RawBatches, v \in ValidateOutcomes :
        IF ~DeserializeSaveBatchExpense(raw) THEN
            Reject(t, "expense.save_bulk", raw, "JsonRejection")
        ELSE IF v # "ok" THEN
            Reject(t, "expense.save_bulk", raw, v)
        ELSE InsertBulkBeginOf(t, raw)

\* handlers::expense::update
ExpenseUpdate(t) ==
    /\ CanCall(t)
    /\ \E id \in TargetIds, raw \in RawSaveExpenses, v \in ValidateOutcomes :
        IF ~DeserializeSaveExpense(raw) THEN
            Reject(t, "expense.update", raw, "JsonRejection")
        ELSE IF v # "ok" THEN
            Reject(t, "expense.update", raw, v)
        ELSE UpdateBeginOf(t, id, raw)

\* handlers::income::save_bulk
IncomeSaveBulk(t) ==
    /\ CanCall(t)
    /\ \E raw \in RawIncomeBatches :
        IF ~DeserializeSaveBatchIncome(raw) THEN
            Reject(t, "income.save_bulk", raw, "JsonRejection")
        ELSE IncomeInsertBulkBeginOf(t, raw)

\* handlers::income::update
IncomeUpdateHandler(t) ==
    /\ CanCall(t)
    /\ \E id \in IncomeIds, raw \in RawSaveIncomes :
        IF ~DeserializeSaveIncome(raw) THEN
            Reject(t, "income.update", raw, "JsonRejection")
        ELSE IncomeUpdateOf(t, id, raw)

\* handlers::wallet::transfer
Transfer(t) ==
    /\ CanCall(t)
    /\ \E raw \in RawSaveMoneyTransferRequests :
        IF ~DeserializeSaveMoneyTransferRequest(raw) THEN
            Reject(t, "wallet.transfer", raw, "JsonRejection")
        ELSE IF SaveFee(raw) = None THEN TransferSingleOf(t, raw)
        ELSE TransferBeginOf(t, raw)

\* The write handlers and the statements of the calls they start.
HandlerNext ==
    \E t \in Tasks :
        \/ ExpenseSaveBulk(t) \/ InsertBulkExpense(t) \/ InsertBulkExpenseTag(t)
        \/ InsertBulkCommit(t)
        \/ ExpenseUpdate(t) \/ UpdateExpense(t) \/ UpdateRollback(t)
        \/ UpdateDeleteExpenseTag(t) \/ UpdateExpenseTag(t) \/ UpdateCommit(t)
        \/ IncomeSaveBulk(t) \/ IncomeInsertBulkIncome(t) \/ IncomeInsertBulkCommit(t)
        \/ IncomeUpdateHandler(t)
        \/ Transfer(t) \/ TransferInsertTransfer(t) \/ TransferInsertExpense(t)
        \/ TransferCommit(t)

HandlerSpec == Init /\ [][HandlerNext]_vars

(***************************************************************************)
(* The calls that open a transaction, run to their end or cancelled.       *)
(***************************************************************************)

RECURSIVE SumUpTo(_, _)
SumUpTo(f, n) == IF n = 0 THEN 0 ELSE f[n] + SumUpTo(f, n - 1)

\* Ids the calls in flight may still draw from each sequence.
ExpenseIdsNeeded ==
    SumUpTo([u \in Tasks |->
                CASE pc[u] = "insert_bulk.expense" ->
                         Len(call[u].expenses) - Len(expense_inserted_ids[u])
                  [] pc[u] \in {"transfer.wallet_transfer", "transfer.expense"} -> 1
                  [] OTHER -> 0], NumTasks)

TransferIdsNeeded ==
    SumUpTo([u \in Tasks |-> IF pc[u] = "transfer.wallet_transfer" THEN 1 ELSE 0], NumTasks)

IncomeIdsNeeded ==
    SumUpTo([u \in Tasks |->
                IF pc[u] = "income.insert_bulk.income"
                THEN Len(call[u].incomes) - Cardinality(tx[u].income_ins) ELSE 0], NumTasks)

\* A call is taken only while the sequences can serve it and the calls in
\* flight up to their last value.
TxInsertBulkBegin(t) ==
    /\ CanCall(t)
    /\ \E expenses \in Batches :
        /\ expense_id_seq + ExpenseIdsNeeded + Len(expenses) <= MaxExpenseId + 1
        /\ InsertBulkBeginOf(t, expenses)

TxIncomeInsertBulkBegin(t) ==
    /\ CanCall(t)
    /\ \E incomes \in IncomeBatches :
        /\ income_id_seq + IncomeIdsNeeded + Len(incomes) <= MaxIncomeId + 1
        /\ IncomeInsertBulkBeginOf(t, incomes)

TxTransferBegin(t) ==
    /\ CanCall(t)
    /\ expense_id_seq + ExpenseIdsNeeded + 1 <= MaxExpenseId + 1
    /\ wallet_transfer_id_seq + TransferIdsNeeded + 1 <= MaxTransferId + 1
    /\ \E body \in SaveMoneyTransferRequests : TransferBeginOf(t, body)

\* The request is cancelled while the call awaits the store: the future is
\* dropped, and with it the Transaction, which rolls back.  A COMMIT that
\* was already sent may still have been carried out.
Cancel(t) ==
    /\ tx[t].open
    /\ \E carried_out \in BOOLEAN :
        IF carried_out /\ pc[t] \in {"insert_bulk.commit", "update.commit", "transfer.commit",
                                     "income.insert_bulk.commit"}
        THEN Commit(t) /\ income' = income \cup tx[t].income_ins
        ELSE UNCHANGED tables
    /\ Return(t, "Cancelled")
    /\ UNCHANGED <<expense_id_seq, wallet_transfer_id_seq, income_id_seq, call, calls,
                   expense_inserted_ids, summary, found>>
    /\ Record(t, effect[t])

\* The statements a call issues after it has begun.
Continue(t) ==
    \/ InsertBulkExpense(t) \/ InsertBulkExpenseTag(t) \/ InsertBulkCommit(t)
    \/ UpdateExpense(t) \/ UpdateRollback(t) \/ UpdateDeleteExpenseTag(t)
    \/ UpdateExpenseTag(t) \/ UpdateCommit(t)
    \/ IncomeInsertBulkIncome(t) \/ IncomeInsertBulkCommit(t)
    \/ TransferInsertTransfer(t) \/ TransferInsertExpense(t) \/ TransferCommit(t)

TxNext ==
    \E t \in Tasks :
        \/ TxInsertBulkBegin(t) \/ UpdateBegin(t) \/ TxIncomeInsertBulkBegin(t)
        \/ TxTransferBegin(t)
        \/ Continue(t)
        \/ Cancel(t)

\* The runtime polls a call that was not cancelled until it returns, and
\* every round trip to the store ends, carried out or failed.
TxSpec == Init /\ [][TxNext]_vars /\ \A t \in Tasks : WF_vars(Continue(t))

(***************************************************************************)
(* summary::SummaryRepository::generate_raw                                *)
(***************************************************************************)

GenerateSummaryRequests ==
    [start_date : 1..MaxDate, end_date : 1..MaxDate,
     exclude_category_ids : {<<>>, <<1>>, <<2>>, <<1, 2>>, <<MissingId>>, <<2, 2>>}]

\* SUM(amount) over rows: NULL (<<>>) over no row, else <<the total>>.  Rows
\* keep their id, so two rows with equal columns count twice.
RECURSIVE Sum(_)
Sum(rows) ==
    IF rows = {} THEN <<>>
    ELSE LET r == CHOOSE x \in rows : TRUE
             rest == Sum(rows \ {r})
         IN <<r.amount + (IF rest = <<>> THEN 0 ELSE rest[1])>>

\* COALESCE(v, d)
Coalesce(v, d) == IF v = <<>> THEN d ELSE v[1]

\* WITH filtered_expense AS (... FROM expense e JOIN category c ON
\* e.category_id = c.id WHERE e.date BETWEEN $1 AND $2 AND e.category_id !=
\* ALL($3))
filtered_expense(request) ==
    { e \in expense :
        /\ e.category_id \in category
        /\ request.start_date <= e.date /\ e.date <= request.end_date
        /\ \A k \in DOMAIN request.exclude_category_ids :
               e.category_id # request.exclude_category_ids[k] }

\* filtered_income with the exclusion list applied to it as well.
filtered_income_Excluding(request) ==
    { i \in income :
        /\ request.start_date <= i.date /\ i.date <= request.end_date
        /\ \A k \in DOMAIN request.exclude_category_ids :
               i.wallet_id # request.exclude_category_ids[k] }

\* filtered_income AS (... FROM income WHERE date BETWEEN $1 AND $2)
filtered_income(request) ==
    { i \in income : request.start_date <= i.date /\ i.date <= request.end_date }

\* total_expense AS (SELECT COALESCE(SUM(fe.amount), 0) ...)
total_expense(request) == Coalesce(Sum(filtered_expense(request)), 0)

\* total_income AS (SELECT COALESCE(SUM(amount), 0) ...)
total_income(request) == Coalesce(Sum(filtered_income(request)), 0)

\* JSONB_AGG(... ORDER BY amount DESC) over a set of rows: every sequence
\* holding each row once with amounts never increasing.  The order of rows
\* of equal amount is the store's choice.
OrderedByAmountDesc(rows) ==
    { s \in [1..Cardinality(rows) -> rows] :
        /\ \A i, j \in 1..Cardinality(rows) : i # j => s[i] # s[j]
        /\ \A i, j \in 1..Cardinality(rows) : i < j => s[i].amount >= s[j].amount }

\* JSONB_BUILD_OBJECT('name', name, 'amount', amount) of each row in turn.
SimpleAmountEntities(s) ==
    [i \in DOMAIN s |-> [name |-> s[i].name, amount |-> s[i].amount]]

\* category_summary AS (SELECT pc.id AS parent_id, c.name,
\* COALESCE(SUM(fe.amount), 0) ... GROUP BY pc.id, c.name)
category_summary(request) ==
    LET joined == { e \in filtered_expense(request) :
                      category_parent_category_id(e.category_id) \in parent_category }
        groups == { <<category_parent_category_id(e.category_id),
                      category_name(e.category_id)>> : e \in joined }
    IN { [parent_id |-> g[1], name |-> g[2],
          amount |-> Coalesce(Sum({ e \in joined :
                        /\ category_parent_category_id(e.category_id) = g[1]
                        /\ category_name(e.category_id) = g[2] }), 0)] :
         g \in groups }

\* parent_category_summary without its WHERE cs.amount > 0.
parent_category_summary_NoAmountTest(request) ==
    LET kept == { cs \in category_summary(request) : cs.parent_id \in parent_category }
        children(id) == { cs \in kept : cs.parent_id = id }
        ids == { cs.parent_id : cs \in kept }
        choices == { f \in [ids -> UNION { OrderedByAmountDesc(children(id)) : id \in ids }] :
                       \A id \in ids : f[id] \in OrderedByAmountDesc(children(id)) }
    IN { { [id |-> id, name |-> parent_category_name(id),
            amount |-> Coalesce(Sum(children(id)), 0),
            categories |-> SimpleAmountEntities(f[id])] : id \in ids } :
         f \in choices }

\* parent_category_summary AS (... FROM category_summary cs JOIN
\* parent_category pc ON cs.parent_id = pc.id WHERE cs.amount > 0 GROUP BY
\* pc.id, pc.name), the categories column in each of its possible orders.
parent_category_summary(request) ==
    LET kept == { cs \in category_summary(request) :
                    cs.parent_id \in parent_category /\ cs.amount > 0 }
        children(id) == { cs \in kept : cs.parent_id = id }
        ids == { cs.parent_id : cs \in kept }
        choices == { f \in [ids -> UNION { OrderedByAmountDesc(children(id)) : id \in ids }] :
                       \A id \in ids : f[id] \in OrderedByAmountDesc(children(id)) }
    IN { { [id |-> id, name |-> parent_category_name(id),
            amount |-> Coalesce(Sum(children(id)), 0),
            categories |-> SimpleAmountEntities(f[id])] : id \in ids } :
         f \in choices }

\* priority_summary grouped by priority and amount.
priority_summary_GroupedByAmount(request) ==
    { [level |-> e.priority, amount |-> e.amount] : e \in filtered_expense(request) }

\* priority_summary AS (SELECT priority AS level, COALESCE(SUM(amount), 0)
\* ... FROM filtered_expense GROUP BY priority ORDER BY amount DESC)
priority_summary(request) ==
    { [level |-> p,
       amount |-> Coalesce(Sum({ e \in filtered_expense(request) : e.priority = p }), 0)] :
      p \in { e.priority : e \in filtered_expense(request) } }

\* wallet_summary giving each group the amount it is grouped by instead of
\* the sum over its rows.
wallet_summary_AmountOfGroup(request) ==
    LET joined == { i \in filtered_income(request) : i.wallet_id \in wallet }
        groups == { <<wallet_name(i.wallet_id), i.amount>> : i \in joined }
    IN { [name |-> g[1], fi_amount |-> g[2], amount |-> g[2]] : g \in groups }

\* wallet_summary AS (SELECT w.name, COALESCE(SUM(fi.amount), 0) ... FROM
\* filtered_income fi JOIN wallet w ON fi.wallet_id = w.id GROUP BY w.name,
\* fi.amount ORDER BY fi.amount DESC).  A row keeps its grouping amount, so
\* that two groups with equal name and total stay two rows.
wallet_summary(request) ==
    LET joined == { i \in filtered_income(request) : i.wallet_id \in wallet }
        groups == { <<wallet_name(i.wallet_id), i.amount>> : i \in joined }
    IN { [name |-> g[1], fi_amount |-> g[2],
          amount |-> Coalesce(Sum({ i \in joined :
                        wallet_name(i.wallet_id) = g[1] /\ i.amount = g[2] }), 0)] :
         g \in groups }

\* 'parent_categories': JSONB_AGG(JSONB_BUILD_OBJECT('name', name, 'amount',
\* amount, 'categories', categories) ORDER BY amount DESC), '[]' over no row.
ParentCategories(request) ==
    UNION { { [i \in DOMAIN s |-> [name |-> s[i].name, amount |-> s[i].amount,
                                   categories |-> s[i].categories]] :
              s \in OrderedByAmountDesc(rows) } :
            rows \in parent_category_summary(request) }

\* 'priorities': JSONB_AGG(JSONB_BUILD_OBJECT('level', level, 'amount',
\* amount) ORDER BY amount DESC), '[]' over no row.
Priorities(request) ==
    { [i \in DOMAIN s |-> [level |-> s[i].level, amount |-> s[i].amount]] :
      s \in OrderedByAmountDesc(priority_summary(request)) }

\* 'wallets': JSONB_AGG(JSONB_BUILD_OBJECT('name', name, 'amount', amount)
\* ORDER BY amount DESC), '[]' over no row.
Wallets(request) ==
    { SimpleAmountEntities(s) : s \in OrderedByAmountDesc(wallet_summary(request)) }

\* The totals of the row the query returns.
SummaryRow(request) ==
    [expense |-> [amount |-> total_expense(request)],
     income |-> [amount |-> total_income(request)]]

\* The rows the query may return, before they are decoded into ShowSummary.
SummaryRows(request) ==
    { [expense |-> [amount |-> SummaryRow(request).expense.amount,
                    group_summary |-> [parent_categories |-> pcs, priorities |-> ps]],
       income |-> [amount |-> SummaryRow(request).income.amount,
                   group_summary |-> [wallets |-> ws]]] :
      pcs \in ParentCategories(request), ps \in Priorities(request),
      ws \in Wallets(request) }

\* Decoding the JSON columns into ExpenseSummary and IncomeSummary, whose
\* amount fields are i32: a total beyond i32::MAX does not decode.  Every
\* other amount of the row is a part of one of the two totals.
Decodes(row) == row.expense.amount <= I32_MAX /\ row.income.amount <= I32_MAX

\* The query run with fetch_one on the pool: one statement, one snapshot.
GenerateRaw(t) ==
    /\ CanCall(t)
    /\ \E request \in GenerateSummaryRequests, o \in Outcomes :
        /\ StartCall(t, [op |-> "summary.generate_raw", request |-> request])
        /\ IF o = "io" THEN
               Return(t, "Io") /\ UNCHANGED <<summary, found>>
           ELSE \E row \in SummaryRows(request) :
               IF ~Decodes(row) THEN
                   Return(t, "ColumnDecode") /\ UNCHANGED <<summary, found>>
               ELSE
                   /\ summary' = [summary EXCEPT ![t] = row]
                   /\ Return(t, "Ok")
    /\ UNCHANGED <<tables, expense_id_seq, wallet_transfer_id_seq, income_id_seq, expense_inserted_ids, found>>
    /\ Record(t, NoEffect)

\* Table contents the summary is computed over.
ExpenseUniverse ==
    { ExpenseRow(1, SaveExpense(10, 1, None, 0, 1, 1, <<>>)),
      ExpenseRow(2, SaveExpense(20, 2, Some("lunch"), 1, 2, 2, <<>>)),
      ExpenseRow(3, SaveExpense(0, 2, None, 2, 1, 1, <<>>)),
      ExpenseRow(4, SaveExpense(I32_MAX, MaxDate, None, 0, 2, 1, <<>>)),
      ExpenseRow(5, SaveExpense(1000, 2, None, 1, 3, 2, <<>>)),
      ExpenseRow(6, SaveExpense(10, 1, None, 0, 1, 1, <<>>)) }

IncomeUniverse ==
    { IncomeRow(1, SaveIncome(100, 1, None, 1)),
      IncomeRow(2, SaveIncome(200, 2, Some("salary"), 2)),
      IncomeRow(3, SaveIncome(100, MaxDate, None, 1)),
      IncomeRow(4, SaveIncome(300, 2, None, 1)) }

SummaryInit ==
    /\ expense \in SUBSET ExpenseUniverse
    /\ expense_tag = {}
    /\ income \in SUBSET IncomeUniverse
    /\ wallet_transfer = {}
    /\ TasksInit

SummaryNext == GenerateRaw(1)

SummarySpec == SummaryInit /\ [][SummaryNext]_vars

(***************************************************************************)
(* dtos::Pagination                                                        *)
(***************************************************************************)

\* Raw values of a query-string field: the field is absent, null, or a text
\* of up to MaxRawLen characters.
Chars == {"-", "0", "1", "5", "a"}

RawValues ==
    { [kind |-> "absent", text |-> <<>>], [kind |-> "null", text |-> <<>>] }
        \cup { [kind |-> "text", text |-> x] :
               x \in UNION { [1..n -> Chars] : n \in 0..MaxRawLen } }

DigitValue(c) == CASE c = "0" -> 0 [] c = "1" -> 1 [] c = "5" -> 5

IsDigits(text) == text # <<>> /\ \A k \in DOMAIN text : text[k] \in {"0", "1", "5"}

RECURSIVE DigitsValue(_)
DigitsValue(text) ==
    IF text = <<>> THEN 0
    ELSE 10 * DigitsValue(SubSeq(text, 1, Len(text) - 1)) + DigitValue(text[Len(text)])

\* A text is numeric when it is digits after an optional sign.
IsNumeric(text) ==
    IsDigits(text) \/ (text # <<>> /\ Head(text) = "-" /\ IsDigits(Tail(text)))

IntValue(text) ==
    IF Head(text) = "-" THEN 0 - DigitsValue(Tail(text)) ELSE DigitsValue(text)

\* deserializer::from_str with serde's default: an Option<i32>, None for a
\* field that is absent, null or not a number.
from_str(raw) ==
    IF raw.kind = "text" /\ IsNumeric(raw.text) THEN Some(IntValue(raw.text)) ELSE None

Pagination(raw_limit, raw_offset) ==
    [limit |-> from_str(raw_limit), offset |-> from_str(raw_offset)]

\* Option::unwrap_or
unwrap_or(option, default) == IF option = None THEN default ELSE option[1]

\* offset with an upper clamp like that of limit.
offset_Clamped(self) ==
    LET raw_offset == unwrap_or(self.offset, 0)
    IN IF raw_offset < 0 \/ raw_offset > MAX_PAGINATION_LIMIT THEN 0 ELSE raw_offset

\* Pagination::limit
limit(self) ==
    LET raw_limit == unwrap_or(self.limit, MAX_PAGINATION_LIMIT)
    IN IF raw_limit < 0 \/ raw_limit > MAX_PAGINATION_LIMIT
       THEN MAX_PAGINATION_LIMIT
       ELSE raw_limit

\* Pagination::offset
offset(self) ==
    LET raw_offset == unwrap_or(self.offset, 0)
    IN IF raw_offset < 0 THEN 0 ELSE raw_offset

\* A listing handler deserializes the query string and resolves the limit
\* and the offset it hands to the repository.
Paginate(t) ==
    /\ CanCall(t)
    /\ \E raw_limit, raw_offset \in RawValues :
        /\ StartCall(t, [op |-> "pagination", limit |-> raw_limit, offset |-> raw_offset])
        /\ found' = [found EXCEPT ![t] =
               [limit |-> limit(Pagination(raw_limit, raw_offset)),
                offset |-> offset(Pagination(raw_limit, raw_offset))]]
        /\ Return(t, "Ok")
    /\ UNCHANGED <<tables, expense_id_seq, wallet_transfer_id_seq, income_id_seq, expense_inserted_ids,
                   summary>>
    /\ Record(t, NoEffect)

PaginationNext == Paginate(1)

PaginationSpec == Init /\ [][PaginationNext]_vars

(***************************************************************************)
(* expense::Repository::find_all and income::Repository::find_all          *)
(***************************************************************************)

\* TO_CHAR(date, 'YYYY-MM-DD') of the days of the model.
Days == <<"2025-03-01", "2025-03-02", "2025-03-03", "2025-03-04", "2025-03-05">>
to_char(date) == Days[date]

\* Queries as the handler hands them over: optional dates, and a Pagination
\* whose fields the deserializer has set.
OptionalDates == {None} \cup { Some(d) : d \in 1..MaxDate }

IndexQueries ==
    [start_date : OptionalDates, end_date : OptionalDates,
     pagination : [limit : {None, Some(0 - 1), Some(0), Some(1), Some(2),
                            Some(MAX_PAGINATION_LIMIT + 1)},
                   offset : {None, Some(0 - 1), Some(1), Some(2), Some(MaxExpenseId + 2)}]]

\* SELECT id, amount, TO_CHAR(date, 'YYYY-MM-DD'), description
IndexElement(row) ==
    [id |-> row.id, amount |-> row.amount, date |-> to_char(row.date),
     description |-> row.description]

\* WHERE ($1::DATE IS NULL OR date >= $1::DATE) AND ($2::DATE IS NULL OR
\* date <= $2::DATE)
WithinDates(query, row) ==
    /\ query.start_date = None \/ row.date >= query.start_date[1]
    /\ query.end_date = None \/ row.date <= query.end_date[1]

\* ORDER BY id DESC in place of ORDER BY id.
RECURSIVE OrderById_Desc(_)
OrderById_Desc(rows) ==
    IF rows = {} THEN <<>>
    ELSE LET first == CHOOSE r \in rows : \A o \in rows : r.id >= o.id
         IN <<first>> \o OrderById_Desc(rows \ {first})

\* ORDER BY id
RECURSIVE OrderById(_)
OrderById(rows) ==
    IF rows = {} THEN <<>>
    ELSE LET first == CHOOSE r \in rows : \A o \in rows : r.id <= o.id
         IN <<first>> \o OrderById(rows \ {first})

\* LIMIT l OFFSET o over the ordered rows.
LimitOffset(rows, l, o) ==
    IF o >= Len(rows) \/ l = 0 THEN <<>>
    ELSE SubSeq(rows, o + 1, IF o + l < Len(rows) THEN o + l ELSE Len(rows))

\* The listing query over one table.
FindAllRows(table, query) ==
    LET selected == { row \in table : WithinDates(query, row) }
        ordered == OrderById(selected)
        page == LimitOffset(ordered, limit(query.pagination), offset(query.pagination))
    IN [k \in DOMAIN page |-> IndexElement(page[k])]

FindAll(t, op, table) ==
    /\ CanCall(t)
    /\ \E query \in IndexQueries, o \in Outcomes :
        /\ StartCall(t, [op |-> op, query |-> query])
        /\ IF o = "io" THEN
               Return(t, "Io") /\ UNCHANGED found
           ELSE
               /\ found' = [found EXCEPT ![t] = FindAllRows(table, query)]
               /\ Return(t, "Ok")
    /\ UNCHANGED <<tables, expense_id_seq, wallet_transfer_id_seq, income_id_seq, expense_inserted_ids,
                   summary>>
    /\ Record(t, NoEffect)

ExpenseFindAll(t) == FindAll(t, "expense.find_all", expense)

IncomeFindAll(t) == FindAll(t, "income.find_all", income)

(***************************************************************************)
(* find_one and find_latest                                                *)
(***************************************************************************)

\* The tags joined to expense id: LEFT JOIN expense_tag, LEFT JOIN tag,
\* FILTER (WHERE t.id IS NOT NULL).
TagsOf(id) == { t \in tag : <<id, t>> \in expense_tag }

\* The tag order with the importance left out of it.
TagOrderLeq_ByNameOnly(collation, a, b) ==
    CollationLeq(collation, CodePoints[tag_name(a)], CodePoints[tag_name(b)])

\* ORDER BY (CASE WHEN t.is_important IS true THEN 0 ELSE 1 END), t.name
TagOrderLeq(collation, a, b) ==
    LET rank(t) == IF tag_is_important(t) THEN 0 ELSE 1
    IN \/ rank(a) < rank(b)
       \/ /\ rank(a) = rank(b)
          /\ CollationLeq(collation, CodePoints[tag_name(a)], CodePoints[tag_name(b)])

\* JSONB_AGG(JSONB_BUILD_OBJECT('id', t.id, 'name', t.name, 'is_important',
\* t.is_important) ORDER BY ...), '[]' over no tag: the arrays the store may
\* return for expense id.
TagArrays(id) ==
    { [k \in DOMAIN s |->
          [id |-> s[k], name |-> tag_name(s[k]), is_important |-> tag_is_important(s[k])]] :
      s \in { x \in [1..Cardinality(TagsOf(id)) -> TagsOf(id)] :
                /\ \A j, k \in DOMAIN x : j # k => x[j] # x[k]
                /\ \E collation \in Collations :
                       \A j, k \in DOMAIN x : j < k => TagOrderLeq(collation, x[j], x[k]) } }

\* The join reading the rows that open transactions have inserted as well.
JoinedExpenses_Uncommitted ==
    { e \in expense \cup UNION { tx[u].expense_ins : u \in Tasks } :
        e.category_id \in category /\ e.wallet_id \in wallet }

\* expense e JOIN category c JOIN wallet w
JoinedExpenses == { e \in expense : e.category_id \in category /\ e.wallet_id \in wallet }

\* income i JOIN wallet w
JoinedIncomes == { i \in income : i.wallet_id \in wallet }

ShowExpense(e, tags) ==
    [amount |-> e.amount, date |-> to_char(e.date), description |-> e.description,
     priority |-> e.priority,
     category |-> [id |-> e.category_id, name |-> category_name(e.category_id)],
     wallet |-> [id |-> e.wallet_id, name |-> wallet_name(e.wallet_id)],
     tags |-> tags]

ShowLatestExpense(e, tags) ==
    [id |-> e.id, amount |-> e.amount, date |-> to_char(e.date),
     description |-> e.description, priority |-> e.priority,
     category |-> [id |-> e.category_id, name |-> category_name(e.category_id)],
     wallet |-> [id |-> e.wallet_id, name |-> wallet_name(e.wallet_id)],
     tags |-> tags]

ShowLatestIncome(i) ==
    [id |-> i.id, amount |-> i.amount, date |-> to_char(i.date),
     description |-> i.description,
     wallet |-> [id |-> i.wallet_id, name |-> wallet_name(i.wallet_id)]]

\* The row ORDER BY id DESC LIMIT 1 keeps, as a set: empty over no row.
Latest_Lowest(rows) == { r \in rows : \A o \in rows : r.id <= o.id }

Latest(rows) == { r \in rows : \A o \in rows : r.id >= o.id }

\* What a reading call does to everything but its result.
Reads(t) ==
    /\ UNCHANGED <<tables, expense_id_seq, wallet_transfer_id_seq, income_id_seq, expense_inserted_ids,
                   summary>>
    /\ Record(t, NoEffect)

\* expense::Repository::find_one: fetch_one of the row with the given id.
ExpenseFindOne(t) ==
    /\ CanCall(t)
    /\ \E id \in 1..(MaxExpenseId + 1), o \in Outcomes :
        /\ StartCall(t, [op |-> "expense.find_one", id |-> id])
        /\ IF o = "io" THEN
               Return(t, "Io") /\ UNCHANGED found
           ELSE IF { e \in JoinedExpenses : e.id = id } = {} THEN
               Return(t, "RowNotFound") /\ UNCHANGED found
           ELSE \E e \in { x \in JoinedExpenses : x.id = id }, tags \in TagArrays(id) :
               /\ found' = [found EXCEPT ![t] = ShowExpense(e, tags)]
               /\ Return(t, "Ok")
    /\ Reads(t)

\* expense::Repository::find_latest: fetch_one of ORDER BY id DESC LIMIT 1.
ExpenseFindLatest(t) ==
    /\ CanCall(t)
    /\ \E o \in Outcomes :
        /\ StartCall(t, [op |-> "expense.find_latest"])
        /\ IF o = "io" THEN
               Return(t, "Io") /\ UNCHANGED found
           ELSE IF Latest(JoinedExpenses) = {} THEN
               Return(t, "RowNotFound") /\ UNCHANGED found
           ELSE \E e \in Latest(JoinedExpenses) : \E tags \in TagArrays(e.id) :
               /\ found' = [found EXCEPT ![t] = ShowLatestExpense(e, tags)]
               /\ Return(t, "Ok")
    /\ Reads(t)

\* income::Repository::find_latest: fetch_one of ORDER BY id DESC LIMIT 1.
IncomeFindLatest(t) ==
    /\ CanCall(t)
    /\ \E o \in Outcomes :
        /\ StartCall(t, [op |-> "income.find_latest"])
        /\ IF o = "io" THEN
               Return(t, "Io") /\ UNCHANGED found
           ELSE IF Latest(JoinedIncomes) = {} THEN
               Return(t, "RowNotFound") /\ UNCHANGED found
           ELSE \E i \in Latest(JoinedIncomes) :
               /\ found' = [found EXCEPT ![t] = ShowLatestIncome(i)]
               /\ Return(t, "Ok")
    /\ Reads(t)

(***************************************************************************)
(* Lookup listings: util::UtilRepository and wallet::Repository::find_many *)
(***************************************************************************)

\* ORDER BY a text column: the ids in each order a collation of the store
\* gives them, text[id] being the text of row id.
OrderedByText(ids, text) ==
    { x \in [1..Cardinality(ids) -> ids] :
        /\ \A j, k \in DOMAIN x : j # k => x[j] # x[k]
        /\ \E collation \in Collations :
               \A j, k \in DOMAIN x : j < k => CollationLeq(collation, text[x[j]], text[x[k]]) }

\* Resolved offsets and limits, and the mark_important_value of a tag query.
LookupOffsets == {0, 1}
LookupLimits == {0, 2, MAX_PAGINATION_LIMIT}
MarkImportantValues == {None, Some(TRUE), Some(FALSE)}

\* SELECT id, name FROM category ORDER BY name OFFSET $1 LIMIT $2
find_many_categories(o, l) ==
    { LET page == LimitOffset(x, l, o)
      IN [k \in DOMAIN page |-> [id |-> page[k], name |-> category_name(page[k])]] :
      x \in OrderedByText(category, [c \in category |-> CodePoints[category_name(c)]]) }

\* SELECT id, name, is_important FROM tag WHERE $1::BOOLEAN IS NULL OR
\* is_important = $1 ORDER BY name OFFSET $2 LIMIT $3
find_many_tags(mark_important_value, o, l) ==
    LET selected == { t \in tag : \/ mark_important_value = None
                                  \/ tag_is_important(t) = mark_important_value[1] }
    IN { LET page == LimitOffset(x, l, o)
         IN [k \in DOMAIN page |->
                [id |-> page[k], name |-> tag_name(page[k]),
                 is_important |-> tag_is_important(page[k])]] :
         x \in OrderedByText(selected, [t \in selected |-> CodePoints[tag_name(t)]]) }

\* SELECT id, name FROM wallet ORDER BY LOWER(name) OFFSET $1 LIMIT $2
find_many(o, l) ==
    { LET page == LimitOffset(x, l, o)
      IN [k \in DOMAIN page |-> [id |-> page[k], name |-> wallet_name(page[k])]] :
      x \in OrderedByText(wallet, [w \in wallet |-> Lower(CodePoints[wallet_name(w)])]) }

FindManyCategories(t) ==
    /\ CanCall(t)
    /\ \E o \in LookupOffsets, l \in LookupLimits, outcome \in Outcomes :
        /\ StartCall(t, [op |-> "util.find_many_categories", offset |-> o, limit |-> l])
        /\ IF outcome = "io" THEN
               Return(t, "Io") /\ UNCHANGED found
           ELSE \E rows \in find_many_categories(o, l) :
               /\ found' = [found EXCEPT ![t] = rows]
               /\ Return(t, "Ok")
    /\ Reads(t)

FindManyTags(t) ==
    /\ CanCall(t)
    /\ \E m \in MarkImportantValues, o \in LookupOffsets, l \in LookupLimits,
          outcome \in Outcomes :
        /\ StartCall(t, [op |-> "util.find_many_tags", mark_important_value |-> m,
                         offset |-> o, limit |-> l])
        /\ IF outcome = "io" THEN
               Return(t, "Io") /\ UNCHANGED found
           ELSE \E rows \in find_many_tags(m, o, l) :
               /\ found' = [found EXCEPT ![t] = rows]
               /\ Return(t, "Ok")
    /\ Reads(t)

WalletFindMany(t) ==
    /\ CanCall(t)
    /\ \E o \in LookupOffsets, l \in LookupLimits, outcome \in Outcomes :
        /\ StartCall(t, [op |-> "wallet.find_many", offset |-> o, limit |-> l])
        /\ IF outcome = "io" THEN
               Return(t, "Io") /\ UNCHANGED found
           ELSE \E rows \in find_many(o, l) :
               /\ found' = [found EXCEPT ![t] = rows]
               /\ Return(t, "Ok")
    /\ Reads(t)

\* Table contents the listings are run over.
ListingInit ==
    /\ \E ids \in SUBSET (1..4) :
        /\ expense = { e \in ExpenseUniverse : e.id \in ids }
        /\ income = { i \in IncomeUniverse : i.id \in ids }
        /\ \E tags \in SUBSET tag : expense_tag = ids \X tags
    /\ wallet_transfer = {}
    /\ TasksInit

ListingNext ==
    \/ ExpenseFindAll(1)
    \/ IncomeFindAll(1)
    \/ ExpenseFindOne(1)
    \/ ExpenseFindLatest(1)
    \/ IncomeFindLatest(1)
    \/ FindManyCategories(1)
    \/ FindManyTags(1)
    \/ WalletFindMany(1)

ListingSpec == ListingInit /\ [][ListingNext]_vars

(***************************************************************************)
(* common::deserializer::date and optional_date                            *)
(***************************************************************************)

\* Texts of a date field, piece by piece: year, separator, month, separator,
\* day.  <<>> stands for no text.
DateTexts ==
    { <<y, s1, m, s2, d>> : y \in {"2025"}, s1 \in {"-", "/"}, m \in {"03", "13"},
                            s2 \in {"-"}, d \in {"01", "02", "03", "32"} }

\* A field as the deserializer meets it: absent, null, or a text, which is
\* borrowed from the input when the input holds it as written and owned
\* when it had to be decoded first (a percent escape or a + in a query
\* string, a backslash escape in a JSON body).
RawDates ==
    { [kind |-> "absent", borrowed |-> TRUE, text |-> <<>>],
      [kind |-> "null", borrowed |-> TRUE, text |-> <<>>] }
        \cup [kind : {"text"}, borrowed : BOOLEAN, text : DateTexts]

\* A query string has no null.
RawQueryDates == { raw \in RawDates : raw.kind # "null" }

TwoDigitValue == [token \in {"01", "02", "03", "13", "32"} |->
                     CASE token = "01" -> 1 [] token = "02" -> 2 [] token = "03" -> 3
                       [] token = "13" -> 13 [] token = "32" -> 32]

\* Date::parse(text, "[year]-[month]-[day]"): the day of the model the text
\* names (day n is 2025-03-n), or None when it does not parse.
DateParse(text) ==
    IF /\ Len(text) = 5 /\ text[2] = "-" /\ text[4] = "-"
       /\ TwoDigitValue[text[3]] \in 1..12
       /\ TwoDigitValue[text[5]] \in 1..31
    THEN Some(TwoDigitValue[text[5]])
    ELSE None

\* deserializer::date: a &str is deserialized, which only a borrowed text
\* yields, and parsed; anything else is an error.
date(raw) ==
    IF raw.kind # "text" \/ ~raw.borrowed \/ DateParse(raw.text) = None
    THEN [ok |-> FALSE, value |-> 0]
    ELSE [ok |-> TRUE, value |-> DateParse(raw.text)[1]]

\* deserializer::optional_date: an Option<&str> is deserialized, the ? passing
\* on the error of a text that is not borrowed; None and a text that does
\* not parse give None.  An absent field takes serde's default.
optional_date(raw) ==
    IF raw.kind = "text" /\ ~raw.borrowed THEN [ok |-> FALSE, value |-> None]
    ELSE IF raw.kind # "text" THEN [ok |-> TRUE, value |-> None]
    ELSE [ok |-> TRUE, value |-> DateParse(raw.text)]

\* The index handler of expenses or incomes: Query<IndexExpenseQuery>
\* deserializes the query string, and the repository lists.
Index(t, op, table) ==
    /\ CanCall(t)
    /\ \E raw_start, raw_end \in RawQueryDates, l \in {None, Some(1)}, o \in Outcomes :
        LET start_date == optional_date(raw_start)
            end_date == optional_date(raw_end)
            query == [start_date |-> start_date.value, end_date |-> end_date.value,
                      pagination |-> [limit |-> l, offset |-> None]]
        IN /\ StartCall(t, [op |-> op, start_date |-> raw_start, end_date |-> raw_end,
                            limit |-> l])
           /\ IF ~start_date.ok \/ ~end_date.ok THEN
                  Return(t, "QueryRejection") /\ UNCHANGED found
              ELSE IF o = "io" THEN
                  Return(t, "Io") /\ UNCHANGED found
              ELSE
                  /\ found' = [found EXCEPT ![t] = FindAllRows(table, query)]
                  /\ Return(t, "Ok")
    /\ Reads(t)

ExpenseIndex(t) == Index(t, "expense.index", expense)

IncomeIndex(t) == Index(t, "income.index", income)

\* Handlers that take a body with a date: Json<...> deserializes it, and a
\* rejection answers the request before the handler body runs.
BodyHandlers ==
    {"expense.save_bulk", "expense.update", "income.save_bulk", "income.update",
     "wallet.transfer", "summary.generate"}

ExtractBody(t) ==
    /\ CanCall(t)
    /\ \E handler \in BodyHandlers, raw \in RawDates :
        /\ StartCall(t, [op |-> "extract_body", handler |-> handler, date |-> raw])
        /\ IF date(raw).ok THEN
               /\ found' = [found EXCEPT ![t] = [date |-> date(raw).value]]
               /\ Return(t, "Ok")
           ELSE
               Return(t, "JsonRejection") /\ UNCHANGED found
    /\ Reads(t)

DateNext == ExpenseIndex(1) \/ IncomeIndex(1) \/ ExtractBody(1)

DateSpec == ListingInit /\ [][DateNext]_vars

(***************************************************************************)
(* common::errors::AppError                                                *)
(***************************************************************************)

\* sqlx::Error::Database errors by sqlx::error::ErrorKind; a statement the
\* store cannot parse is of kind Other.
DatabaseErrors ==
    {"UniqueViolation", "ForeignKeyViolation", "NotNullViolation", "CheckViolation",
     "SyntaxError", "Other"}

\* The other variants of sqlx::Error.
StorageErrors ==
    {"RowNotFound", "Io", "Tls", "Protocol", "Configuration", "TypeNotFound",
     "ColumnIndexOutOfBounds", "ColumnNotFound", "ColumnDecode", "Encode", "Decode",
     "PoolTimedOut", "PoolClosed", "WorkerCrashed"}

AppErrors ==
    [variant : {"SqlxError"}, error : DatabaseErrors \cup StorageErrors, status : {0}]
        \cup [variant : {"JsonRejection"}, error : {"none"}, status : {400, 415, 422}]
        \cup [variant : {"PathRejection"}, error : {"none"}, status : {400, 500}]
        \cup [variant : {"ValidationError"}, error : {"none"}, status : {0}]

\* into_response with a check violation answered as a conflict too.
into_response_CheckAsConflict(self) ==
    CASE self.variant = "JsonRejection" -> [status |-> self.status, message |-> TRUE]
      [] self.variant = "PathRejection" -> [status |-> self.status, message |-> TRUE]
      [] self.variant = "ValidationError" -> [status |-> 422, message |-> TRUE]
      [] self.variant = "SqlxError" ->
            IF self.error \in DatabaseErrors THEN
                IF self.error \in {"UniqueViolation", "ForeignKeyViolation",
                                   "NotNullViolation", "CheckViolation"}
                THEN [status |-> 409, message |-> FALSE]
                ELSE [status |-> 500, message |-> FALSE]
            ELSE IF self.error = "RowNotFound" THEN [status |-> 404, message |-> FALSE]
            ELSE [status |-> 500, message |-> FALSE]

\* AppError::into_response: the status, and whether a message body goes with it.
into_response(self) ==
    CASE self.variant = "JsonRejection" -> [status |-> self.status, message |-> TRUE]
      [] self.variant = "PathRejection" -> [status |-> self.status, message |-> TRUE]
      [] self.variant = "ValidationError" -> [status |-> 422, message |-> TRUE]
      [] self.variant = "SqlxError" ->
            IF self.error \in DatabaseErrors THEN
                IF self.error \in {"UniqueViolation", "ForeignKeyViolation", "NotNullViolation"}
                THEN [status |-> 409, message |-> FALSE]
                ELSE [status |-> 500, message |-> FALSE]
            ELSE IF self.error = "RowNotFound" THEN [status |-> 404, message |-> FALSE]
            ELSE [status |-> 500, message |-> FALSE]

\* A handler answers a request that failed.
Respond(t) ==
    /\ CanCall(t)
    /\ \E error \in AppErrors :
        /\ StartCall(t, [op |-> "into_response", error |-> error])
        /\ found' = [found EXCEPT ![t] = into_response(error)]
        /\ Return(t, "Ok")
    /\ Reads(t)

ErrorNext == \E t \in Tasks : Respond(t)

ErrorSpec == Init /\ [][ErrorNext]_vars

(***************************************************************************)
(* Readers running beside the calls that write in several statements.      *)
(***************************************************************************)

\* Any task writes; the first task is the one that reads.
ReadNext ==
    \/ \E t \in Tasks :
        \/ InsertBulkBegin(t) \/ InsertBulkExpense(t) \/ InsertBulkExpenseTag(t)
        \/ InsertBulkCommit(t)
        \/ UpdateBegin(t) \/ UpdateExpense(t) \/ UpdateRollback(t)
        \/ UpdateDeleteExpenseTag(t) \/ UpdateExpenseTag(t) \/ UpdateCommit(t)
        \/ TransferBegin(t) \/ TransferInsertTransfer(t) \/ TransferInsertExpense(t)
        \/ TransferCommit(t)
    \/ ExpenseFindOne(1) \/ ExpenseFindAll(1) \/ ExpenseFindLatest(1)
    \/ GenerateRaw(1)

ReadSpec == Init /\ [][ReadNext]_vars

(***************************************************************************)
(* The repositories serving calls side by side.                            *)
(***************************************************************************)
Next ==
    \E t \in Tasks :
        \/ InsertBulkBegin(t)
        \/ InsertBulkExpense(t)
        \/ InsertBulkExpenseTag(t)
        \/ InsertBulkCommit(t)
        \/ UpdateBegin(t)
        \/ UpdateExpense(t)
        \/ UpdateRollback(t)
        \/ UpdateDeleteExpenseTag(t)
        \/ UpdateExpenseTag(t)
        \/ UpdateCommit(t)
        \/ Delete(t)
        \/ IncomeUpdate(t)
        \/ IncomeDelete(t)
        \/ TransferSingle(t)
        \/ TransferBegin(t)
        \/ TransferInsertTransfer(t)
        \/ TransferInsertExpense(t)
        \/ TransferCommit(t)
        \/ ExpenseFindLatest(t)
        \/ IncomeFindLatest(t)

Spec == Init /\ [][Next]_vars

(***************************************************************************)
(* Properties.                                                             *)
(***************************************************************************)

IsDone(t, op) == call[t].op = op /\ pc[t] = "done"

\* The tag pairs of a batch whose i-th expense got id ids[i].
BatchPairs(expenses, ids) ==
    UNION { { <<ids[i], expenses[i].tag_ids[k]>> : k \in DOMAIN expenses[i].tag_ids }
            : i \in DOMAIN expenses }

BatchRows(expenses, ids) ==
    { ExpenseRow(ids[i], expenses[i]) : i \in DOMAIN expenses }

RECURSIVE SumOfAmounts(_)
SumOfAmounts(rows) ==
    IF rows = {} THEN 0
    ELSE LET r == CHOOSE x \in rows : TRUE
         IN r.amount + SumOfAmounts(rows \ {r})

RECURSIVE TagCount(_)
TagCount(expenses) ==
    IF expenses = <<>> THEN 0
    ELSE Len(Head(expenses).tag_ids) + TagCount(Tail(expenses))

\* C1: an expense insert_bulk changes the committed expense and expense_tag
\* tables all or nothing: a call that returned Ok added every row and every
\* (expense_id, tag_id) pair of its batch and nothing else; a call that is
\* still running, or returned an error from any statement or from the
\* commit, has changed nothing.
C1_InsertBulkAllOrNothing ==
    \A t \in Tasks : call[t].op = "expense.insert_bulk" =>
        LET expenses == call[t].expenses
            ids == expense_inserted_ids[t]
        IN IF pc[t] = "done" /\ ret[t] = "Ok"
           THEN /\ Len(ids) = Len(expenses)
                /\ effect[t] = [NoEffect EXCEPT
                                   !.expense_add = BatchRows(expenses, ids),
                                   !.tag_add = BatchPairs(expenses, ids)]
           ELSE effect[t] = NoEffect

\* A batch whose rows were all inserted and whose tag insert then failed on
\* a tag id that does not exist.
C1_Witness ==
    \E t \in Tasks :
        /\ IsDone(t, "expense.insert_bulk")
        /\ returned_at[t] = "insert_bulk.expense_tag"
        /\ ret[t] = "ForeignKeyViolation"
        /\ Len(expense_inserted_ids[t]) = Len(call[t].expenses)
        /\ Len(call[t].expenses) = 2

\* C2: a transfer with a fee record changes the committed tables all or
\* nothing: returned Ok, it added one wallet_transfer row and one expense
\* row; running or failed, it changed nothing, the wallet_transfer table
\* included.
C2_TransferWithFeeAllOrNothing ==
    \A t \in Tasks :
        (call[t].op = "wallet.transfer" /\ call[t].fee_record # None) =>
            IF pc[t] = "done" /\ ret[t] = "Ok"
            THEN /\ Cardinality(effect[t].transfer_add) = 1
                 /\ Cardinality(effect[t].expense_add) = 1
                 /\ effect[t] = [NoEffect EXCEPT
                                    !.transfer_add = effect[t].transfer_add,
                                    !.expense_add = effect[t].expense_add]
            ELSE effect[t] = NoEffect

\* The expense insert failed after the transfer insert had been executed.
C2_Witness ==
    \E t \in Tasks :
        /\ IsDone(t, "wallet.transfer")
        /\ returned_at[t] = "transfer.expense"
        /\ ret[t] = "Io"

\* C3: a successful insert_bulk of p_1..p_N added exactly N expense rows and
\* exactly sum(|p_i.tag_ids|) expense_tag rows, and there are N distinct ids
\* id_1..id_N such that the added rows are the rows (id_i, p_i) and the added
\* pairs are exactly the pairs (id_i, t) for t in p_i.tag_ids, whatever other
\* inserts drew ids in between.
C3_InsertBulkAttribution ==
    \A t \in Tasks :
        (IsDone(t, "expense.insert_bulk") /\ ret[t] = "Ok") =>
            LET expenses == call[t].expenses
                N == Len(expenses)
                added == effect[t].expense_add
            IN /\ Cardinality(added) = N
               /\ Cardinality(effect[t].tag_add) = TagCount(expenses)
               /\ \E f \in [1..N -> { r.id : r \in added }] :
                     /\ \A i, j \in 1..N : i # j => f[i] # f[j]
                     /\ added = BatchRows(expenses, f)
                     /\ effect[t].tag_add = BatchPairs(expenses, f)

\* A successful batch of two expenses with different tag lists whose ids are
\* not consecutive: another insert drew an id between its two rows.
C3_Witness ==
    \E t \in Tasks :
        /\ IsDone(t, "expense.insert_bulk")
        /\ ret[t] = "Ok"
        /\ Len(call[t].expenses) = 2
        /\ call[t].expenses[1].tag_ids # call[t].expenses[2].tag_ids
        /\ expense_inserted_ids[t][2] > expense_inserted_ids[t][1] + 1

\* C8: a successful transfer request added exactly one wallet_transfer row,
\* carrying the fields of the request, and added no expense row when the fee
\* is 0 and exactly one expense row when the fee is greater than 0.
C8_TransferRowCounts ==
    \A t \in Tasks :
        (IsDone(t, "wallet.transfer") /\ ret[t] = "Ok") =>
            LET body == call[t].body IN
            /\ Cardinality(effect[t].transfer_add) = 1
            /\ \A r \in effect[t].transfer_add :
                  /\ r.source_wallet_id = body.source_wallet_id
                  /\ r.target_wallet_id = body.target_wallet_id
                  /\ r.amount = body.amount
                  /\ r.date = body.date
                  /\ r.description = body.description
            /\ Cardinality(effect[t].expense_add) = (IF body.fee = 0 THEN 0 ELSE 1)
            /\ effect[t].expense_del = {}

\* One transfer without fee and one with a fee, both successful.
C8_Witness ==
    \E t, u \in Tasks :
        /\ IsDone(t, "wallet.transfer") /\ ret[t] = "Ok" /\ call[t].body.fee = 0
        /\ IsDone(u, "wallet.transfer") /\ ret[u] = "Ok" /\ call[u].body.fee > 0
        /\ Cardinality(wallet_transfer) = 2

\* C9: the expense row a successful transfer with fee > 0 added has wallet_id
\* = the source wallet, category_id = 1, priority = 2, amount = the fee, date
\* = the transfer date, and description "Wallet transfer fee: " followed by
\* the transfer description when there is one, no description otherwise.
C9_FeeExpenseFields ==
    \A t \in Tasks :
        (IsDone(t, "wallet.transfer") /\ ret[t] = "Ok" /\ call[t].body.fee > 0) =>
            LET body == call[t].body IN
            \A r \in effect[t].expense_add :
                /\ r.wallet_id = body.source_wallet_id
                /\ r.category_id = 1
                /\ r.priority = 2
                /\ r.amount = body.fee
                /\ r.date = body.date
                /\ r.description =
                       (IF body.description = None THEN None
                        ELSE <<"Wallet transfer fee: " \o body.description[1]>>)

\* A fee expense row of a transfer that had a description.
C9_Witness ==
    \E t \in Tasks :
        /\ IsDone(t, "wallet.transfer") /\ ret[t] = "Ok"
        /\ call[t].body.description = <<"rent">>
        /\ \E r \in effect[t].expense_add :
               r.description = <<"Wallet transfer fee: rent">> /\ r.amount = 5

\* C4: an update of an existing expense with an empty tag_ids list succeeds:
\* once the row is updated and its old associations are deleted, the call
\* returns Ok unless the connection fails, and it adds no expense_tag row.
C4_UpdateEmptyTagsSucceeds ==
    \A t \in Tasks :
        ( /\ IsDone(t, "expense.update")
          /\ call[t].expense.tag_ids = <<>>
          /\ returned_at[t] \in {"update.expense_tag", "update.commit"}
          /\ ret[t] # "Io" )
        => (ret[t] = "Ok" /\ effect[t].tag_add = {})

\* C5: the step at which an expense update(id, payload) returns Ok leaves
\* row id with the fields of the payload, leaves as expense_tag rows of id
\* exactly the pairs (id, t) for t in payload.tag_ids, and changes no other
\* expense row, no expense_tag row of another expense and no other table.
C5_UpdateReplacesRowAndTags ==
    [][ \A t \in Tasks :
          (pc[t] = "update.commit" /\ pc'[t] = "done" /\ ret'[t] = "Ok") =>
              LET id == call[t].id
                  e == call[t].expense
              IN /\ { r \in expense' : r.id = id } =
                        { [id |-> id, amount |-> e.amount, date |-> e.date,
                           description |-> e.description, priority |-> e.priority,
                           category_id |-> e.category_id, wallet_id |-> e.wallet_id] }
                 /\ { p \in expense_tag' : p[1] = id } =
                        { <<id, e.tag_ids[k]>> : k \in DOMAIN e.tag_ids }
                 /\ { r \in expense' : r.id # id } = { r \in expense : r.id # id }
                 /\ { p \in expense_tag' : p[1] # id } =
                        { p \in expense_tag : p[1] # id }
                 /\ income' = income
                 /\ wallet_transfer' = wallet_transfer ]_vars

\* A successful update that changed the fields of the row and removed a tag.
C5_Witness ==
    \E t \in Tasks :
        /\ IsDone(t, "expense.update") /\ ret[t] = "Ok"
        /\ effect[t].expense_add # {}
        /\ effect[t].tag_del # {}
        /\ \E p \in expense_tag : p[1] # call[t].id

\* C6: an expense or income update that returned RowNotFound changed no row
\* and no tag association, and the expense update returned it from the
\* rollback of its transaction; an update of an id that never had a row
\* returns RowNotFound (or the error of a failed connection) and changes
\* nothing.
C6_UpdateMissingRow ==
    \A t \in Tasks :
        (pc[t] = "done" /\ call[t].op \in {"expense.update", "income.update"}) =>
            /\ ret[t] = "RowNotFound" => (effect[t] = NoEffect /\ ~tx[t].open)
            /\ (call[t].op = "expense.update" /\ ret[t] = "RowNotFound")
                   => returned_at[t] = "update.rollback"
            /\ (call[t].op = "expense.update" /\ call[t].id >= expense_id_seq)
                   => (ret[t] \in {"RowNotFound", "Io"} /\ effect[t] = NoEffect)
            /\ (call[t].op = "income.update"
                    /\ call[t].id \notin { r.id : r \in InitialIncome })
                   => (ret[t] \in {"RowNotFound", "Io"} /\ effect[t] = NoEffect)

\* An expense update and an income update, each on an id without a row, both
\* returned RowNotFound.
C6_Witness ==
    \E t, u \in Tasks :
        /\ IsDone(t, "expense.update") /\ ret[t] = "RowNotFound"
        /\ call[t].id \notin { r.id : r \in expense }
        /\ IsDone(u, "income.update") /\ ret[u] = "RowNotFound"
        /\ call[u].id \notin { r.id : r \in income }

C10_ExpenseAmount ==
    \A t \in Tasks :
        (IsDone(t, "summary.generate_raw") /\ ret[t] # "Io") =>
            LET request == call[t].request
                excluded == { request.exclude_category_ids[k] :
                                  k \in DOMAIN request.exclude_category_ids }
                matching == { e \in expense :
                                /\ e.date >= request.start_date
                                /\ e.date <= request.end_date
                                /\ e.category_id \notin excluded }
            IN /\ ret[t] = "Ok"
               /\ summary[t].expense.amount = SumOfAmounts(matching)
               /\ matching = {} => summary[t].expense.amount = 0

\* The request and the result of a generate_raw call that returned a summary.
SummaryReturned(t) == IsDone(t, "summary.generate_raw") /\ ret[t] = "Ok"

InRange(request, row) ==
    request.start_date <= row.date /\ row.date <= request.end_date

SortedByAmountDesc(s) ==
    \A i, j \in DOMAIN s : i < j => s[i].amount >= s[j].amount

\* C11: in a returned summary, income.group_summary.wallets has exactly one
\* entry per wallet name that has income in the date range, the entry's
\* amount is the total of that wallet's in-range income, and the entries are
\* ordered by amount descending.
C11_WalletsOnePerName ==
    \A t \in Tasks : SummaryReturned(t) =>
        LET request == call[t].request
            wallets == summary[t].income.group_summary.wallets
            matching == { i \in income : InRange(request, i) }
            names == { wallet_name(i.wallet_id) : i \in matching }
        IN /\ Len(wallets) = Cardinality(names)
           /\ \A n \in names : \E k \in DOMAIN wallets :
                  /\ wallets[k].name = n
                  /\ wallets[k].amount =
                         SumOfAmounts({ i \in matching : wallet_name(i.wallet_id) = n })
           /\ SortedByAmountDesc(wallets)

\* The expense rows a summary request counts.
Counted(request) ==
    { e \in expense :
        /\ InRange(request, e)
        /\ \A k \in DOMAIN request.exclude_category_ids :
               e.category_id # request.exclude_category_ids[k] }

\* C12: in a returned summary, parent_categories holds exactly the parent
\* categories whose counted expense total is > 0, each with its total and
\* the list of its child categories whose counted total is > 0; parents are
\* ordered by total descending and each child list by child total
\* descending.
C12_ParentCategories ==
    \A t \in Tasks : SummaryReturned(t) =>
        LET request == call[t].request
            pcs == summary[t].expense.group_summary.parent_categories
            ofCategory(c) == SumOfAmounts({ e \in Counted(request) : e.category_id = c })
            ofParent(p) ==
                SumOfAmounts({ e \in Counted(request) :
                                 category_parent_category_id(e.category_id) = p })
            parents == { p \in parent_category : ofParent(p) > 0 }
            childrenOf(p) == { c \in category :
                                 category_parent_category_id(c) = p /\ ofCategory(c) > 0 }
        IN /\ Len(pcs) = Cardinality(parents)
           /\ SortedByAmountDesc(pcs)
           /\ \A p \in parents : \E k \in DOMAIN pcs :
                  /\ pcs[k].name = parent_category_name(p)
                  /\ pcs[k].amount = ofParent(p)
                  /\ Len(pcs[k].categories) = Cardinality(childrenOf(p))
                  /\ SortedByAmountDesc(pcs[k].categories)
                  /\ \A c \in childrenOf(p) : \E m \in DOMAIN pcs[k].categories :
                         pcs[k].categories[m] =
                             [name |-> category_name(c), amount |-> ofCategory(c)]

\* A returned summary with two parent categories, while a category whose
\* only counted expense has amount 0 is left out.
C12_Witness ==
    \E t \in Tasks :
        /\ SummaryReturned(t)
        /\ Len(summary[t].expense.group_summary.parent_categories) = 2
        /\ \E e \in Counted(call[t].request) :
               /\ e.amount = 0
               /\ \A f \in Counted(call[t].request) :
                      f.category_id = e.category_id => f.amount = 0

\* C13: in a returned summary, priorities has at most one entry per priority
\* level, every level is one of 0, 1, 2, each entry's amount is the sum of
\* the counted expenses of its level, every level with a counted expense has
\* its entry, and the entries are ordered by amount descending.
C13_Priorities ==
    \A t \in Tasks : SummaryReturned(t) =>
        LET request == call[t].request
            ps == summary[t].expense.group_summary.priorities
        IN /\ \A k, m \in DOMAIN ps : k # m => ps[k].level # ps[m].level
           /\ \A k \in DOMAIN ps :
                  /\ ps[k].level \in {0, 1, 2}
                  /\ ps[k].amount =
                         SumOfAmounts({ e \in Counted(request) : e.priority = ps[k].level })
           /\ \A e \in Counted(request) : \E k \in DOMAIN ps : ps[k].level = e.priority
           /\ SortedByAmountDesc(ps)

\* A returned summary with an entry for each of the three levels, one of
\* them the total of two expenses.
C13_Witness ==
    \E t \in Tasks :
        /\ SummaryReturned(t)
        /\ Len(summary[t].expense.group_summary.priorities) = 3
        /\ \E e, f \in Counted(call[t].request) : e # f /\ e.priority = f.priority

\* C14: the income part of a returned summary does not depend on the
\* exclusion list: its amount and its wallets are an amount and a wallets
\* list the query yields, over the same tables and date range, for every
\* other exclude_category_ids.
C14_IncomeIgnoresExclusion ==
    \A t \in Tasks : SummaryReturned(t) =>
        \A other \in GenerateSummaryRequests :
            ( /\ other.start_date = call[t].request.start_date
              /\ other.end_date = call[t].request.end_date ) =>
                /\ summary[t].income.amount = total_income(other)
                /\ summary[t].income.group_summary.wallets \in Wallets(other)

\* A returned summary whose exclusion list left out an expense in the date
\* range while income of two wallets was in the range.
C14_Witness ==
    \E t \in Tasks :
        /\ SummaryReturned(t)
        /\ \E e \in expense : InRange(call[t].request, e) /\ e \notin Counted(call[t].request)
        /\ \E k, m \in DOMAIN summary[t].income.group_summary.wallets :
               summary[t].income.group_summary.wallets[k].name #
                   summary[t].income.group_summary.wallets[m].name

\* C15: pagination resolution is total: the limit is MAX_PAGINATION_LIMIT
\* when the raw limit is absent, null, not numeric, negative or greater than
\* MAX_PAGINATION_LIMIT and the parsed value otherwise; the offset is 0 when
\* the raw offset is absent, null, not numeric or negative and the parsed
\* value otherwise, however large.
C15_PaginationResolution ==
    \A t \in Tasks : IsDone(t, "pagination") =>
        LET l == call[t].limit
            o == call[t].offset
        IN /\ ret[t] = "Ok"
           /\ found[t].limit =
                  IF l.kind # "text" \/ ~IsNumeric(l.text) THEN MAX_PAGINATION_LIMIT
                  ELSE IF IntValue(l.text) < 0 THEN MAX_PAGINATION_LIMIT
                  ELSE IF IntValue(l.text) > MAX_PAGINATION_LIMIT THEN MAX_PAGINATION_LIMIT
                  ELSE IntValue(l.text)
           /\ found[t].offset =
                  IF o.kind # "text" \/ ~IsNumeric(o.text) THEN 0
                  ELSE IF IntValue(o.text) < 0 THEN 0
                  ELSE IntValue(o.text)

\* A raw limit and a raw offset both above MAX_PAGINATION_LIMIT: the limit
\* is clamped, the offset is not.
C15_Witness ==
    \E t \in Tasks :
        /\ IsDone(t, "pagination")
        /\ call[t].limit.kind = "text" /\ IsNumeric(call[t].limit.text)
        /\ IntValue(call[t].limit.text) > MAX_PAGINATION_LIMIT
        /\ found[t].limit = MAX_PAGINATION_LIMIT
        /\ found[t].offset > MAX_PAGINATION_LIMIT

\* C16: for every raw pagination input the resolved limit is greater than 0
\* and at most MAX_PAGINATION_LIMIT, and the resolved offset is at least 0.
C16_PaginationRange ==
    \A t \in Tasks : IsDone(t, "pagination") =>
        /\ 0 < found[t].limit /\ found[t].limit <= MAX_PAGINATION_LIMIT
        /\ found[t].offset >= 0

\* C17: find_all of expenses and of incomes returns the rows whose date
\* satisfies every bound that is present, in ascending id order, without the
\* first offset of them and cut to at most limit; with start_date after
\* end_date it returns the empty sequence and no error.
C17_FindAll ==
    \A t \in Tasks :
        (call[t].op \in {"expense.find_all", "income.find_all"} /\ pc[t] = "done"
            /\ ret[t] # "Io") =>
            LET query == call[t].query
                table == IF call[t].op = "expense.find_all" THEN expense ELSE income
                l == limit(query.pagination)
                o == offset(query.pagination)
                matching == { row \in table :
                                /\ query.start_date # None => row.date >= query.start_date[1]
                                /\ query.end_date # None => row.date <= query.end_date[1] }
                \* rows of matching with fewer than o, and fewer than o + l,
                \* matching rows of smaller id
                page == { row \in matching :
                            LET before == Cardinality({ x \in matching : x.id < row.id })
                            IN before >= o /\ before < o + l }
            IN /\ ret[t] = "Ok"
               /\ Len(found[t]) = Cardinality(page)
               /\ Len(found[t]) <= l
               /\ \A k \in DOMAIN found[t] : \E row \in page :
                      /\ found[t][k].id = row.id
                      /\ found[t][k].amount = row.amount
                      /\ found[t][k].date = to_char(row.date)
                      /\ found[t][k].description = row.description
               /\ \A j, k \in DOMAIN found[t] : j < k => found[t][j].id < found[t][k].id
               /\ ( /\ query.start_date # None /\ query.end_date # None
                    /\ query.start_date[1] > query.end_date[1] ) => found[t] = <<>>

\* A listing that skipped a matching row, returned one and cut another off,
\* while a row outside the date bounds stayed out.
C17_Witness ==
    \E t \in Tasks :
        /\ IsDone(t, "expense.find_all") /\ ret[t] = "Ok"
        /\ call[t].query.start_date # None
        /\ offset(call[t].query.pagination) = 1
        /\ Len(found[t]) = 1
        /\ \E e \in expense : WithinDates(call[t].query, e) /\ e.id > found[t][1].id
        /\ \E e \in expense : ~WithinDates(call[t].query, e)

\* C18: the tag array returned by expense find_one and find_latest holds
\* exactly the tags associated with the expense, each once, with the
\* important tags first and, within each importance group, ascending by name.
C18_TagArray ==
    \A t \in Tasks :
        (call[t].op \in {"expense.find_one", "expense.find_latest"} /\ pc[t] = "done"
            /\ ret[t] = "Ok") =>
            LET id == IF call[t].op = "expense.find_one" THEN call[t].id ELSE found[t].id
                tags == found[t].tags
            IN /\ { tags[k].id : k \in DOMAIN tags } = { x \in tag : <<id, x>> \in expense_tag }
               /\ \A j, k \in DOMAIN tags : j # k => tags[j].id # tags[k].id
               /\ \A k \in DOMAIN tags :
                      /\ tags[k].name = tag_name(tags[k].id)
                      /\ tags[k].is_important = tag_is_important(tags[k].id)
               /\ \A j, k \in DOMAIN tags : j < k =>
                      /\ tags[k].is_important => tags[j].is_important
                      /\ tags[j].is_important = tags[k].is_important =>
                             TextLeq(CodePoints[tags[j].name], CodePoints[tags[k].name])

\* A find_one whose expense has an important tag and two others, returned
\* with the important one first and the others not in the order of their ids.
C18_Witness ==
    \E t \in Tasks :
        /\ IsDone(t, "expense.find_one") /\ ret[t] = "Ok"
        /\ Len(found[t].tags) = 3
        /\ found[t].tags[1].is_important
        /\ found[t].tags[2].id > found[t].tags[3].id

\* C20: whatever inserts, updates and deletes came before, a find_latest of
\* expenses or of incomes returns the row with the highest id in the table
\* at that moment, and RowNotFound when the table is empty.
C20_FindLatest ==
    [][ \A t \in Tasks :
          ( /\ calls'[t] # calls[t]
            /\ call'[t].op \in {"expense.find_latest", "income.find_latest"}
            /\ ret'[t] # "Io" ) =>
              LET table == IF call'[t].op = "expense.find_latest" THEN expense ELSE income
              IN IF table = {} THEN ret'[t] = "RowNotFound"
                 ELSE /\ ret'[t] = "Ok"
                      /\ \E r \in table :
                             /\ \A o \in table : o.id <= r.id
                             /\ found'[t].id = r.id
                             /\ found'[t].amount = r.amount
                             /\ found'[t].date = to_char(r.date)
                             /\ found'[t].description = r.description
                             /\ found'[t].wallet.id = r.wallet_id ]_vars

\* A find_latest that returned the second row of a batch another call had
\* inserted before.
C20_Witness ==
    \E t, u \in Tasks :
        /\ IsDone(t, "expense.find_latest") /\ ret[t] = "Ok"
        /\ IsDone(u, "expense.insert_bulk") /\ ret[u] = "Ok"
        /\ Len(expense_inserted_ids[u]) = 2
        /\ found[t].id = expense_inserted_ids[u][2]

\* C19: the lookup listings of categories, tags and wallets are ordered by
\* name without regard to case, and the tag listing returns every important
\* tag before every tag that is not.
C19_LookupOrder ==
    \A t \in Tasks :
        ( /\ call[t].op \in {"util.find_many_categories", "util.find_many_tags",
                             "wallet.find_many"}
          /\ pc[t] = "done" /\ ret[t] = "Ok" ) =>
            \A j, k \in DOMAIN found[t] : j < k =>
                /\ TextLeq(Lower(CodePoints[found[t][j].name]),
                           Lower(CodePoints[found[t][k].name]))
                /\ call[t].op = "util.find_many_tags" =>
                       (found[t][k].is_important => found[t][j].is_important)

\* C21: every storage failure is answered with exactly one status:
\* RowNotFound with 404; a database error that is a unique, foreign-key or
\* not-null violation with 409; every other database error and every other
\* storage error with 500.
C21_ErrorClassification ==
    \A t \in Tasks :
        (IsDone(t, "into_response") /\ call[t].error.variant = "SqlxError") =>
            LET error == call[t].error.error
            IN /\ found[t].status \in {404, 409, 500}
               /\ found[t].status = 404 <=> error = "RowNotFound"
               /\ found[t].status = 409 <=>
                      error \in {"UniqueViolation", "ForeignKeyViolation", "NotNullViolation"}

\* A check violation and a lost connection answered with 500 side by side.
C21_Witness ==
    \E t, u \in Tasks :
        /\ IsDone(t, "into_response") /\ call[t].error.error = "CheckViolation"
        /\ found[t].status = 500
        /\ IsDone(u, "into_response") /\ call[u].error.error = "Io"
        /\ found[u].status = 500

\* C22: a date of a listing query that is malformed is taken as absent: the
\* listing does not fail and filters by the other bound and the pagination;
\* a date of a request body that is absent, null or malformed rejects the
\* request, with nothing read or written.
C22_DateHandling ==
    \A t \in Tasks :
        /\ (call[t].op \in {"expense.index", "income.index"} /\ pc[t] = "done"
               /\ ret[t] # "Io") =>
               LET bound(raw) == IF raw.kind = "text" THEN DateParse(raw.text) ELSE None
                   table == IF call[t].op = "expense.index" THEN expense ELSE income
               IN /\ ret[t] = "Ok"
                  /\ found[t] = FindAllRows(table,
                         [start_date |-> bound(call[t].start_date),
                          end_date |-> bound(call[t].end_date),
                          pagination |-> [limit |-> call[t].limit, offset |-> None]])
        /\ (IsDone(t, "extract_body")
               /\ (call[t].date.kind # "text" \/ DateParse(call[t].date.text) = None)) =>
               ret[t] = "JsonRejection" /\ effect[t] = NoEffect

\* C23: whatever the write handlers were sent, every expense row, the fee
\* rows of transfers included, has a priority of 0, 1 or 2, an amount of at
\* least 0 and positive category_id and wallet_id; every income row has a
\* positive amount; every wallet_transfer row has an amount of at least 0;
\* and a body with a value out of these bounds, in any element of a batch,
\* is rejected with nothing changed.
C23_ValidatedRows ==
    /\ \A r \in expense :
           r.priority \in {0, 1, 2} /\ r.amount >= 0 /\ r.category_id > 0 /\ r.wallet_id > 0
    /\ \A r \in income : r.amount > 0
    /\ \A r \in wallet_transfer : r.amount >= 0
    /\ \A t \in Tasks :
        LET BadExpense(e) == \/ e.priority \notin {0, 1, 2} \/ e.amount < 0
                             \/ e.category_id < 1 \/ e.wallet_id < 1
            BadIncome(i) == i.amount < 1
            BadTransfer(b) == b.amount < 0 \/ b.fee < 0 \/ b.source_wallet_id < 1
            c == call[t]
            body == IF "raw" \in DOMAIN c THEN c.raw
                    ELSE CASE c.op = "expense.insert_bulk" -> c.expenses
                           [] c.op = "expense.update" -> c.expense
                           [] c.op = "income.insert_bulk" -> c.incomes
                           [] c.op = "income.update" -> c.income
                           [] c.op = "wallet.transfer" -> c.body
                           [] OTHER -> <<>>
            Rejected == ret[t] = "JsonRejection" /\ effect[t] = NoEffect
        IN /\ (c.op \in {"expense.save_bulk", "expense.insert_bulk"}
                  /\ \E k \in DOMAIN body : BadExpense(body[k])) => Rejected
           /\ (c.op = "expense.update" /\ BadExpense(body)) => Rejected
           /\ (c.op \in {"income.save_bulk", "income.insert_bulk"}
                  /\ \E k \in DOMAIN body : BadIncome(body[k])) => Rejected
           /\ (c.op = "income.update" /\ BadIncome(body)) => Rejected
           /\ (c.op = "wallet.transfer" /\ BadTransfer(body)) => Rejected

\* A batch whose second element has a priority of 3 was rejected, and the
\* fee row of a transfer is committed.
C23_Witness ==
    /\ \E t \in Tasks :
           /\ call[t].op = "expense.save_bulk" /\ ret[t] = "JsonRejection"
           /\ Len(call[t].raw) = 2 /\ call[t].raw[1].priority = 0
           /\ call[t].raw[2].priority = 3
    /\ \E r \in expense : r.id >= 3 /\ r.category_id = FEE_CATEGORY_ID /\ r.amount = 5

C25_TransactionsEnd ==
    /\ \A t \in Tasks : tx[t].open ~> ~tx[t].open
    /\ [][\A t \in Tasks :
            /\ (tx[t].open /\ ~tx'[t].open) =>
                  \/ UNCHANGED tables
                  \/ /\ pc[t] \in {"insert_bulk.commit", "update.commit", "transfer.commit",
                                   "income.insert_bulk.commit"}
                     /\ expense' = { r \in expense : \A u \in tx[t].expense_upd : u.id # r.id }
                                       \cup tx[t].expense_upd \cup tx[t].expense_ins
                     /\ expense_tag' = (expense_tag \ tx[t].tag_del) \cup tx[t].tag_ins
                     /\ wallet_transfer' = wallet_transfer \cup tx[t].transfer_ins
                     /\ income' = income \cup tx[t].income_ins
            /\ (tx[t].open /\ tx'[t].open /\ <<tx[t], pc[t]>> # <<tx'[t], pc'[t]>>) =>
                  UNCHANGED tables]_vars

\* A call was cancelled between its statements with nothing changed, and a
\* batch of two incomes was committed whole.
C25_Witness ==
    \E t, u \in Tasks :
        /\ ret[t] = "Cancelled" /\ returned_at[t] = "insert_bulk.expense_tag"
        /\ effect[t] = NoEffect
        /\ IsDone(u, "income.insert_bulk") /\ ret[u] = "Ok"
        /\ Cardinality(effect[u].income_add) = 2

C27_TransferPathsAgree ==
    /\ \A t \in Tasks :
        (IsDone(t, "wallet.transfer") /\ ret[t] = "Ok") =>
            LET body == call[t].body
            IN /\ \E r \in effect[t].transfer_add :
                      /\ effect[t].transfer_add = {r}
                      /\ r.source_wallet_id = body.source_wallet_id
                      /\ r.target_wallet_id = body.target_wallet_id
                      /\ r.amount = body.amount
                      /\ r.date = body.date
                      /\ r.description = body.description
               /\ Cardinality(effect[t].expense_add) = IF body.fee = 0 THEN 0 ELSE 1
               /\ effect[t].expense_del = {} /\ effect[t].tag_add = {}
               /\ effect[t].tag_del = {} /\ effect[t].income_add = {}
               /\ effect[t].income_del = {}
    /\ \A t, u \in Tasks :
        (/\ IsDone(t, "wallet.transfer") /\ ret[t] = "Ok"
         /\ IsDone(u, "wallet.transfer") /\ ret[u] = "Ok"
         /\ [call[t].body EXCEPT !.fee = 0] = [call[u].body EXCEPT !.fee = 0]) =>
            { [r EXCEPT !.id = 0] : r \in effect[t].transfer_add }
                = { [r EXCEPT !.id = 0] : r \in effect[u].transfer_add }

\* Two transfers of the same fields returned Ok, one without a fee and one
\* with a fee.
C27_Witness ==
    \E t, u \in Tasks :
        /\ IsDone(t, "wallet.transfer") /\ ret[t] = "Ok" /\ call[t].body.fee = 0
        /\ IsDone(u, "wallet.transfer") /\ ret[u] = "Ok" /\ call[u].body.fee # 0
        /\ [call[t].body EXCEPT !.fee = 0] = [call[u].body EXCEPT !.fee = 0]
        /\ effect[u].expense_add # {}

RECURSIVE AmountsOf(_)
AmountsOf(s) == IF s = <<>> THEN 0 ELSE Head(s).amount + AmountsOf(Tail(s))

\* C28: in every summary generate_raw returns, the amounts of the priorities
\* add up to expense.amount, the amounts of the parent categories add up to
\* expense.amount, the amount of each parent category is the sum of the
\* amounts of the categories listed under it, and the amounts of the wallets
\* add up to income.amount.
C28_SummaryAddsUp ==
    \A t \in Tasks :
        SummaryReturned(t) =>
            LET e == summary[t].expense
                i == summary[t].income
            IN /\ AmountsOf(e.group_summary.priorities) = e.amount
               /\ AmountsOf(e.group_summary.parent_categories) = e.amount
               /\ \A k \in DOMAIN e.group_summary.parent_categories :
                      AmountsOf(e.group_summary.parent_categories[k].categories)
                          = e.group_summary.parent_categories[k].amount
               /\ AmountsOf(i.group_summary.wallets) = i.amount

\* A summary with a parent category over two categories, two priorities,
\* and a wallet whose two incomes of the same amount make one entry beside
\* another entry of the same wallet.
C28_Witness ==
    \E t \in Tasks :
        /\ SummaryReturned(t)
        /\ \E k \in DOMAIN summary[t].expense.group_summary.parent_categories :
               Len(summary[t].expense.group_summary.parent_categories[k].categories) = 2
        /\ Len(summary[t].expense.group_summary.priorities) >= 2
        /\ \E k \in DOMAIN summary[t].income.group_summary.wallets :
               summary[t].income.group_summary.wallets[k].amount = 200
        /\ summary[t].income.amount = 500

\* C29: when two updates of the same expense have both returned Ok, and
\* no other call was made on that expense, the committed row and the
\* committed tags of the expense are those of one of the two payloads: the
\* fields of one with the tags of the other, or tags of both, never.
C29_ConcurrentUpdates ==
    \A t, u \in Tasks :
        (/\ t # u
         /\ IsDone(t, "expense.update") /\ ret[t] = "Ok"
         /\ IsDone(u, "expense.update") /\ ret[u] = "Ok"
         /\ call[t].id = call[u].id
         /\ \A w \in Tasks : calls[w] <= 1
         /\ \A w \in Tasks \ {t, u} :
                ~(call[w].op \in {"expense.update", "expense.delete"}
                      /\ call[w].id = call[t].id)) =>
            \E w \in {t, u} :
                /\ ExpenseRow(call[w].id, call[w].expense) \in expense
                /\ \A r \in expense :
                       r.id = call[w].id => r = ExpenseRow(call[w].id, call[w].expense)
                /\ { p \in expense_tag : p[1] = call[w].id }
                       = { <<call[w].id, g>> : g \in Range(call[w].expense.tag_ids) }

\* Two updates of expense 1 returned Ok with payloads that differ in the
\* fields and in the tags.
C29_Witness ==
    \E t, u \in Tasks :
        /\ t # u
        /\ IsDone(t, "expense.update") /\ ret[t] = "Ok"
        /\ IsDone(u, "expense.update") /\ ret[u] = "Ok"
        /\ call[t].id = 1 /\ call[u].id = 1
        /\ call[t].expense.amount # call[u].expense.amount
        /\ Range(call[t].expense.tag_ids) # Range(call[u].expense.tag_ids)
        /\ Range(call[t].expense.tag_ids) # {}
        /\ Range(call[u].expense.tag_ids) # {}

\* Errors a statement of a writing call may fail with.
StatementErrors == {"Io", "SyntaxError", "ForeignKeyViolation", "UniqueViolation"}

\* The place of each statement in its call.
StatementOrder ==
    [label \in {"insert_bulk.expense", "insert_bulk.expense_tag", "insert_bulk.commit",
                "update.expense", "update.rollback", "update.delete_expense_tag",
                "update.expense_tag", "update.commit", "transfer.wallet_transfer",
                "transfer.expense", "transfer.commit"} |->
        CASE label \in {"insert_bulk.expense", "update.expense",
                        "transfer.wallet_transfer"} -> 1
          [] label \in {"insert_bulk.expense_tag", "update.delete_expense_tag",
                        "update.rollback", "transfer.expense"} -> 2
          [] label = "update.expense_tag" -> 3
          [] OTHER -> 4]

\* C30: a call whose statement failed is over in the state that holds the
\* error, with its transaction gone; the step that returns the error is
\* taken at the statement that failed and commits nothing; and a call in
\* flight only moves on to a later statement, each row of a VALUES list
\* being sent once.
C30_NoRetry ==
    /\ [](\A t \in Tasks :
             ret[t] \in StatementErrors => pc[t] = "done" /\ ~tx[t].open)
    /\ [][\A t \in Tasks :
             /\ (ret[t] = "pending" /\ ret'[t] \in StatementErrors) =>
                    /\ returned_at'[t] = pc[t]
                    /\ pc'[t] = "done"
                    /\ UNCHANGED tables
             /\ (pc[t] \in DOMAIN StatementOrder /\ pc'[t] # "done"
                     /\ <<pc[t], tx[t], expense_inserted_ids[t]>>
                            # <<pc'[t], tx'[t], expense_inserted_ids'[t]>>) =>
                    /\ pc'[t] \in DOMAIN StatementOrder
                    /\ \/ StatementOrder[pc[t]] < StatementOrder[pc'[t]]
                       \/ /\ pc[t] = "insert_bulk.expense" /\ pc'[t] = pc[t]
                          /\ Len(expense_inserted_ids'[t]) = Len(expense_inserted_ids[t]) + 1
                          /\ Len(expense_inserted_ids'[t]) < Len(call[t].expenses)]_vars

\* A batch of two expenses failed at the statement that inserts its tags,
\* after both rows were sent.
C30_Witness ==
    \E t \in Tasks :
        /\ IsDone(t, "expense.insert_bulk")
        /\ ret[t] \in {"Io", "ForeignKeyViolation", "UniqueViolation"}
        /\ returned_at[t] = "insert_bulk.expense_tag"
        /\ Len(expense_inserted_ids[t]) = 2
        /\ effect[t] = NoEffect

====
